---- MODULE Spec2Model ----
(***************************************************************************)
(* Amber -> Tesla tariff conversion.                                       *)
(*                                                                         *)
(* Two converters live in the repository:                                  *)
(*   impl = "ha"  : custom_components/tesla_amber_sync/tariff_converter.py *)
(*   impl = "app" : app/tariff_converter.py (class AmberTariffConverter)   *)
(*                                                                         *)
(* One conversion run is a small state machine: the empty-input check and  *)
(* timezone detection, one step per forecast point of the normalisation    *)
(* loop, the rolling 24h builder and the tariff document builder.          *)
(*                                                                         *)
(* Units.  Amber prices (cents/kWh) are integers in 1/1000 cent.  Tesla    *)
(* prices (dollars/kWh) are integers in 1/10000 dollar, the precision of   *)
(* _round_price.  Times are minutes; a date is a day number.               *)
(***************************************************************************)
EXTENDS Integers, Sequences, FiniteSets, TLC

\* ------------------------------------------------------------------------
\* Bounds of the model
\* ------------------------------------------------------------------------
MaxPoints == 2

\* ------------------------------------------------------------------------
\* Arithmetic helpers
\* ------------------------------------------------------------------------
Max(a, b) == IF a >= b THEN a ELSE b

Min(a, b) == IF a <= b THEN a ELSE b

RECURSIVE Sum(_)
Sum(s) == IF Len(s) = 0 THEN 0 ELSE Head(s) + Sum(Tail(s))

\* round(n / d) to the nearest integer, ties to even (Python round()).
RoundDiv(n, d) ==
    LET q == n \div d
        r == n % d
    IN  IF 2 * r < d THEN q
        ELSE IF 2 * r > d THEN q + 1
        ELSE IF q % 2 = 0 THEN q ELSE q + 1

\* _round_price(per_kwh_cents / 100): 1/1000 cent -> 1/10000 dollar.
CentsToDollars(per_kwh_cents) == RoundDiv(per_kwh_cents, 10)

\* Variant: the mean is cut off after the fourth decimal, not rounded.
AveragePriceTruncated(prices) == Sum(prices) \div Len(prices)

\* _round_price(sum(prices) / len(prices))
AveragePrice(prices) == RoundDiv(Sum(prices), Len(prices))

\* ------------------------------------------------------------------------
\* Wall-clock timestamps: what an ISO-8601 string with offset carries.
\* ------------------------------------------------------------------------
WallMinutes(ts) == ts.day * 1440 + ts.hour * 60 + ts.minute

FromWall(w, off) ==
    [day |-> w \div 1440, hour |-> (w % 1440) \div 60, minute |-> w % 60,
     off |-> off]

\* timestamp - timedelta(minutes=duration)
MinusMinutes(ts, duration) == FromWall(WallMinutes(ts) - duration, ts.off)

\* datetime.now(tz) for the instant clock (UTC minutes) and a UTC offset.
NowIn(clk, off) == FromWall(clk + off, off)

\* ------------------------------------------------------------------------
\* Input universe
\* ------------------------------------------------------------------------
VariantNames == {"predicted", "low", "high"}

NoVal == [k \in VariantNames |-> 0]

NoAdv == [kind |-> "none", num |-> 0, keys |-> {}, val |-> NoVal]

NumAdv(n) == [kind |-> "num", num |-> n, keys |-> {}, val |-> NoVal]

MapAdv(ks, v) == [kind |-> "map", num |-> 0, keys |-> ks, val |-> v]

NemTime(d, h, m) == [ok |-> TRUE, day |-> d, hour |-> h, minute |-> m, off |-> 600]

BadNemTime == [ok |-> FALSE, day |-> 0, hour |-> 0, minute |-> 0, off |-> 0]

Point(nt, ch, dur, ty, pk, adv) ==
    [nemTime |-> nt, channelType |-> ch, duration |-> dur, type |-> ty,
     perKwh |-> pk, advancedPrice |-> adv]

\* Representative price points.  Day 0 is the day the clock values below
\* fall on in +10:00.
GeneralActual5 ==
    Point(NemTime(0, 18, 0), "general", 5, "ActualInterval", 40000, NoAdv)

GeneralCurrent30 ==
    Point(NemTime(0, 18, 0), "general", 30, "CurrentInterval", 44000, NoAdv)

\* Ends at midnight: its interval starts on the day before.
FeedInActualMidnight ==
    Point(NemTime(1, 0, 0), "feedIn", 30, "ActualInterval", -8500, NoAdv)

FeedInForecastMap ==
    Point(NemTime(1, 6, 30), "feedIn", 30, "ForecastInterval", -1000,
          MapAdv(VariantNames, [predicted |-> -60000, low |-> -50000, high |-> -70000]))

GeneralForecastMap ==
    Point(NemTime(1, 6, 30), "general", 30, "ForecastInterval", 1000,
          MapAdv(VariantNames, [predicted |-> 20142, low |-> 15000, high |-> 30000]))

\* Its variant map has no "predicted".
GeneralForecastNoPredicted ==
    Point(NemTime(1, 18, 0), "general", 30, "ForecastInterval", 25000,
          MapAdv({"low", "high"}, [predicted |-> 0, low |-> 21000, high |-> 35000]))

GeneralBadTime ==
    Point(BadNemTime, "general", 30, "ActualInterval", 33000, NoAdv)

ControlledLoad ==
    Point(NemTime(0, 18, 0), "controlledLoad", 30, "ActualInterval", 17000, NoAdv)

FeedInActualMorning ==
    Point(NemTime(0, 6, 30), "feedIn", 30, "ActualInterval", -9000, NoAdv)

\* A negative buy price.
GeneralNegativeMorning ==
    Point(NemTime(0, 6, 30), "general", 30, "ActualInterval", -3000, NoAdv)

\* Legacy shape: advancedPrice is a number.
GeneralForecastNumber ==
    Point(NemTime(0, 12, 30), "general", 5, "ForecastInterval", 5000, NumAdv(26000))

\* A positive feedIn price (the customer pays to export).
FeedInForecastNumber ==
    Point(NemTime(0, 12, 30), "feedIn", 5, "ForecastInterval", -4000, NumAdv(4000))

\* A point whose duration is zero minutes.
GeneralZeroDuration ==
    Point(NemTime(0, 9, 0), "general", 0, "ActualInterval", 50000, NoAdv)

\* Legacy shape with a forecast of exactly 0 c/kWh.
GeneralForecastZero ==
    Point(NemTime(0, 15, 0), "general", 30, "ForecastInterval", 5000, NumAdv(0))

Points ==
    { GeneralActual5, GeneralCurrent30, FeedInActualMidnight, FeedInForecastMap,
      GeneralForecastMap, GeneralForecastNoPredicted, GeneralBadTime,
      ControlledLoad, FeedInActualMorning, GeneralNegativeMorning,
      GeneralForecastNumber, FeedInForecastNumber, GeneralZeroDuration,
      GeneralForecastZero }

\* The app converter reads nemTime, channelType and advancedPrice only; these
\* points differ in what it reads.
AppPoints ==
    { GeneralActual5, FeedInActualMorning, GeneralForecastMap, GeneralBadTime,
      ControlledLoad, GeneralForecastNumber, FeedInForecastNumber,
      GeneralNegativeMorning }

RECURSIVE SeqsUpTo(_, _)
SeqsUpTo(S, n) ==
    IF n = 0 THEN {<<>>}
    ELSE LET shorter == SeqsUpTo(S, n - 1)
         IN  shorter \cup {Append(s, x) : s \in {t \in shorter : Len(t) = n - 1}, x \in S}

Forecasts == SeqsUpTo(Points, MaxPoints)

AppForecasts == SeqsUpTo(AppPoints, MaxPoints)

ForecastTypes == {"predicted", "low"}

\* "" is "no timezone supplied"; a name ZoneInfo knows; a name it rejects.
PowerwallTimezones == {"", "Australia/Perth", "Mars/Olympus"}

KnownZones == {"Australia/Perth", "Australia/Sydney"}

\* UTC offsets a zone can have (Sydney observes daylight saving).
ZoneOffsets(zone) == IF zone = "Australia/Perth" THEN {480} ELSE {600, 660}

\* Instants (UTC minutes) at which a run may read the clock; in +10:00 they
\* are day 0 at 00:00, 12:00, 12:45 and 23:59.
Clocks == {-600, 120, 165, 839}

Impls == {"ha", "app"}

\* "" is manual_override=None.
ManualOverrides == {"", "charge", "discharge"}

\* UTC offsets the server's naive datetime.now() can be in (app).
ServerOffsets == {0, 600}

\* ------------------------------------------------------------------------
\* State
\* ------------------------------------------------------------------------
VARIABLES
    impl,                \* which converter runs
    forecast_data,       \* argument: list of price points
    forecast_type,       \* argument (ha)
    powerwall_timezone,  \* argument (ha)
    clock,               \* the ambient wall clock, UTC minutes
    pc,                  \* position of the run
    idx,                 \* 1-based index of the next point of the loop
    manual_override,     \* argument (app): "" | "charge" | "discharge"
    detected_tz,         \* tzinfo found by the timezone handling (ha)
    general_lookup,      \* (date, hour, minute) -> list of prices
    feedin_lookup,
    now,                 \* datetime.now(...) as read by the builder
    date_to_use,         \* period key -> date selected for the slot
    general_prices,      \* period key -> price
    feedin_prices,
    result,              \* "pending" | "None" | "tariff"
    tariff,              \* the returned document (rates and tou_periods)
    slot_i,              \* slots the builder's loop has gone through
    calls,               \* number of the current invocation (1 or 2)
    first_return         \* what the first invocation returned

\* app/tasks.py: one user with AEMO spike detection, the tariff on that
\* user's Tesla site and the two periodic jobs.
VARIABLES
    site_tariff,             \* the tariff the Tesla site currently holds
    sync_enabled,            \* user.sync_enabled (with Amber and Tesla tokens)
    aemo_in_spike_mode,      \* user.aemo_in_spike_mode
    aemo_saved_tariff_id,    \* user.aemo_saved_tariff_id, 0 is None
    saved_profiles,          \* SavedTOUProfile rows: id -> tariff_json
    mon_pc,                  \* position of monitor_aemo_prices for the user
    current_price,           \* current_price of the current monitoring cycle
    current_tariff,          \* current_tariff of the current cycle
    episode_start_tariff     \* history: the site's tariff when spike mode began

\* app/tasks.py: one call of create_spike_tariff.
VARIABLES
    spike_threshold,         \* user.aemo_spike_threshold of the caller, $/MWh
    current_aemo_price_mwh,  \* argument, $/MWh
    current_period_index,    \* now.hour * 2 + (1 if now.minute >= 30 else 0)
    cst_pc,                  \* position of the call
    spike_buy_rates,         \* buy_rates: period -> 1/10000 $/kWh
    spike_sell_rates         \* sell_rates: period -> 1/10000 $/kWh

\* custom_components/tesla_amber_sync/__init__.py: one call of
\* send_tariff_to_tesla.
VARIABLES
    max_retries,             \* argument
    attempt,                 \* the loop variable: attempts begun so far
    send_pc,                 \* "idle" | "loop" | "returned"
    send_result,             \* "pending" | "True" | "False"
    responses                \* history: what each POST attempt met, in order

\* app/custom_tou_builder.py: one call of CustomTOUBuilder.build_tesla_tariff.
VARIABLES
    schedule,                \* argument: the seasons, each with its periods
    season_i,                \* 1-based index of the season being processed
    period_i,                \* 1-based index of the next period of the season
    cust_pc,                 \* "idle" | "season" | "returned" | "raised"
    slots,                   \* what _generate_time_slots returned last
    tou_periods,             \* of the season being processed
    energy_rates,            \* of the season being processed, 1/10000 $/kWh
    sell_rates,              \* of the season being processed
    seasons_data,            \* season name -> tou_periods
    energy_charges,          \* season name -> rates
    sell_energy_charges,     \* season name -> rates
    custom_result            \* "pending" | "tariff" | "ValueError"

\* The state of the tariff conversion run.
convVars == <<impl, forecast_data, forecast_type, powerwall_timezone, manual_override,
          clock, pc, idx, detected_tz, general_lookup, feedin_lookup, now, date_to_use,
          general_prices, feedin_prices, result, tariff, slot_i, calls,
          first_return>>

\* The state of the spike monitoring.
spikeVars == <<site_tariff, sync_enabled, aemo_in_spike_mode, aemo_saved_tariff_id,
               saved_profiles, mon_pc, current_price, current_tariff,
               episode_start_tariff>>

\* The state of a create_spike_tariff call.
tariffVars == <<spike_threshold, current_aemo_price_mwh, current_period_index, cst_pc,
                spike_buy_rates, spike_sell_rates>>

\* The state of a send_tariff_to_tesla call.
sendVars == <<max_retries, attempt, send_pc, send_result, responses>>

\* The state of a build_tesla_tariff call.
customVars == <<schedule, season_i, period_i, cust_pc, slots, tou_periods,
                energy_rates, sell_rates, seasons_data, energy_charges,
                sell_energy_charges, custom_result>>

\* The state of the functions that are called on their own.
otherVars == <<tariffVars, sendVars, customVars>>

vars == <<convVars, spikeVars, otherVars>>

\* What a conversion run leaves alone.
NotConverter == <<spikeVars, otherVars>>

EmptyDict == <<>>

\* A tzinfo: none, a fixed UTC offset (from a parsed timestamp) or a named
\* zone (ZoneInfo).
NoTz == [kind |-> "none", zone |-> "", off |-> 0]

FixedTz(off) == [kind |-> "fixed", zone |-> "", off |-> off]

ZoneTz(zone) == [kind |-> "zone", zone |-> zone, off |-> 0]

NoTariff == [rates |-> EmptyDict, sell_rates |-> EmptyDict,
             tou_periods |-> EmptyDict, sell_tou_periods |-> EmptyDict]

NoNow == [day |-> 0, hour |-> 0, minute |-> 0, off |-> 0]

\* Nothing has been returned yet.
NoReturn == [result |-> "pending", tariff |-> NoTariff]

\* Tariffs a Tesla site can hold, as far as the jobs tell them apart.
UserTariff == [kind |-> "user"]

AmberTariff == [kind |-> "amber"]

SpikeTariff == [kind |-> "spike"]

\* current_tariff is None
NoCurrentTariff == [kind |-> "none"]

\* The user's record before any job has run.
SpikeInit ==
    /\ site_tariff = UserTariff
    /\ aemo_in_spike_mode = FALSE
    /\ aemo_saved_tariff_id = 0
    /\ saved_profiles = <<>>
    /\ mon_pc = "idle"
    /\ current_price = 0
    /\ current_tariff = NoCurrentTariff
    /\ episode_start_tariff = NoCurrentTariff

\* create_spike_tariff has not been called.
NoSpikeTariffCall ==
    /\ spike_threshold = 0
    /\ current_aemo_price_mwh = 0
    /\ current_period_index = 0
    /\ cst_pc = "idle"
    /\ spike_buy_rates = EmptyDict
    /\ spike_sell_rates = EmptyDict

\* send_tariff_to_tesla has not been called.
NoSend ==
    /\ max_retries = 0
    /\ attempt = 0
    /\ send_pc = "idle"
    /\ send_result = "pending"
    /\ responses = <<>>

\* The locals of build_tesla_tariff before its loop.
NoSeasonsBuilt ==
    /\ season_i = 1
    /\ period_i = 1
    /\ slots = <<>>
    /\ tou_periods = EmptyDict
    /\ energy_rates = EmptyDict
    /\ sell_rates = EmptyDict
    /\ seasons_data = EmptyDict
    /\ energy_charges = EmptyDict
    /\ sell_energy_charges = EmptyDict
    /\ custom_result = "pending"

\* build_tesla_tariff has not been called.
NoCustomBuild ==
    /\ schedule = <<>>
    /\ cust_pc = "idle"
    /\ NoSeasonsBuilt

\* None of the functions called on their own is running.
OthersIdle ==
    /\ NoSpikeTariffCall
    /\ NoSend
    /\ NoCustomBuild

\* No periodic job is part of a conversion run.
NoJobs ==
    /\ SpikeInit
    /\ sync_enabled = FALSE
    /\ OthersIdle

Init ==
    /\ impl \in Impls
    /\ forecast_data \in (IF impl = "ha" THEN Forecasts ELSE AppForecasts)
    /\ forecast_type \in (IF impl = "ha" THEN ForecastTypes ELSE {"predicted"})
    /\ powerwall_timezone \in (IF impl = "ha" THEN PowerwallTimezones ELSE {""})
    /\ manual_override \in (IF impl = "app" THEN ManualOverrides ELSE {""})
    /\ clock \in Clocks
    /\ pc = "start"
    /\ idx = 1
    /\ detected_tz = NoTz
    /\ general_lookup = EmptyDict
    /\ feedin_lookup = EmptyDict
    /\ now = NoNow
    /\ date_to_use = EmptyDict
    /\ general_prices = EmptyDict
    /\ feedin_prices = EmptyDict
    /\ result = "pending"
    /\ tariff = NoTariff
    /\ slot_i = 0
    /\ calls = 1
    /\ first_return = NoReturn
    /\ NoJobs

\* ------------------------------------------------------------------------
\* Python dict helpers
\* ------------------------------------------------------------------------
HasKey(d, k) == k \in DOMAIN d

\* if key not in lookup: lookup[key] = []; lookup[key].append(price)
AppendPrice(lookup, key, price) ==
    IF HasKey(lookup, key)
    THEN [lookup EXCEPT ![key] = Append(@, price)]
    ELSE lookup @@ (key :> <<price>>)

\* ------------------------------------------------------------------------
\* ha: convert_amber_to_tesla_tariff, empty check and timezone handling
\* ------------------------------------------------------------------------
\* Variant: the empty-input guard never fires.
NoForecastDataNever(fd) == FALSE

\* `not forecast_data`
NoForecastData(fd) == Len(fd) = 0

\* ZoneInfo(name) succeeds
ZoneInfoOk(name) == name \in KnownZones

\* The auto-detection loop: tzinfo of the first nemTime that parses.
AutoDetectTz(fd) ==
    LET parsed == {j \in 1..Len(fd) : fd[j].nemTime.ok}
    IN  IF parsed = {} THEN NoTz
        ELSE LET first == CHOOSE j \in parsed : \A k \in parsed : j <= k
             IN  FixedTz(fd[first].nemTime.off)

DetectTz(fd, pw_tz) ==
    IF pw_tz # "" /\ ZoneInfoOk(pw_tz) THEN ZoneTz(pw_tz) ELSE AutoDetectTz(fd)

HAStart ==
    /\ pc = "start"
    /\ impl = "ha"
    /\ IF NoForecastData(forecast_data)
       THEN /\ result' = "None"
            /\ pc' = "done"
            /\ UNCHANGED detected_tz
       ELSE /\ detected_tz' = DetectTz(forecast_data, powerwall_timezone)
            /\ pc' = "normalize"
            /\ UNCHANGED result
    /\ UNCHANGED <<slot_i, calls, first_return>>
    /\ UNCHANGED NotConverter
    /\ UNCHANGED <<impl, forecast_data, forecast_type, powerwall_timezone,
                   manual_override, clock, idx, general_lookup, feedin_lookup,
                   now, date_to_use, general_prices, feedin_prices, tariff>>

\* ------------------------------------------------------------------------
\* ha: convert_amber_to_tesla_tariff, one iteration of the point loop
\* ------------------------------------------------------------------------
\* A value of `raise`d / returned: the outcome of a step that may raise.
Raised == [raised |-> TRUE, value |-> 0]

Value(v) == [raised |-> FALSE, value |-> v]

\* `not advanced_price`: None, 0 and {} are falsy.
AdvFalsy(adv) ==
    \/ adv.kind = "none"
    \/ adv.kind = "num" /\ adv.num = 0
    \/ adv.kind = "map" /\ adv.keys = {}

\* Price extraction: per_kwh_cents, or ValueError.
SelectPrice(point, ftype) ==
    LET advanced_price == point.advancedPrice
    IN  IF point.type = "ForecastInterval"
        THEN IF AdvFalsy(advanced_price) THEN Raised
             ELSE IF advanced_price.kind = "map"
                  THEN IF ftype \notin advanced_price.keys THEN Raised
                       ELSE Value(advanced_price.val[ftype])
             ELSE IF advanced_price.kind = "num" THEN Value(advanced_price.num)
             ELSE Raised
        ELSE Value(point.perKwh)

\* Variant: the feedIn price keeps the sign of the feed.
SignedCentsUnchanged(channel_type, per_kwh_cents) == per_kwh_cents

\* feedIn prices are negated.
SignedCents(channel_type, per_kwh_cents) ==
    IF channel_type = "feedIn" THEN 0 - per_kwh_cents ELSE per_kwh_cents

\* Variant: bucketing by the interval end, the duration is not read.
IntervalStartIsEnd(timestamp, duration) == timestamp

\* interval_start = timestamp - timedelta(minutes=duration)
IntervalStart(timestamp, duration) == MinusMinutes(timestamp, duration)

\* 0 if minute < 30 else 30
MinuteBucket(minute) == IF minute < 30 THEN 0 ELSE 30

\* (date_str, hour, minute bucket) of a datetime
LookupKey(dt) == <<dt.day, dt.hour, MinuteBucket(dt.minute)>>

\* The body of the try block for one point: the two lookups afterwards, or
\* raised (nothing was appended before the exception).
ProcessOne(point, ftype, gl, fl) ==
    IF ~point.nemTime.ok THEN [raised |-> TRUE, general |-> gl, feedin |-> fl]
    ELSE
    LET timestamp == point.nemTime
        sel == SelectPrice(point, ftype)
    IN  IF sel.raised THEN [raised |-> TRUE, general |-> gl, feedin |-> fl]
        ELSE
        LET per_kwh_dollars ==
                CentsToDollars(SignedCents(point.channelType, sel.value))
            lookup_key == LookupKey(IntervalStart(timestamp, point.duration))
        IN  IF point.channelType = "general"
            THEN [raised |-> FALSE,
                  general |-> AppendPrice(gl, lookup_key, per_kwh_dollars),
                  feedin |-> fl]
            ELSE IF point.channelType = "feedIn"
            THEN [raised |-> FALSE, general |-> gl,
                  feedin |-> AppendPrice(fl, lookup_key, per_kwh_dollars)]
            ELSE [raised |-> FALSE, general |-> gl, feedin |-> fl]

\* Variant: the handler leaves the loop (break) instead of continuing.
AfterErrorBreak(i, n) == n + 1

\* except Exception: continue -- the index of the next point to process.
\* n is the length of the batch.
AfterError(i, n) == i + 1

HAProcessPoint ==
    /\ pc = "normalize"
    /\ impl = "ha"
    /\ idx <= Len(forecast_data)
    /\ LET out == ProcessOne(forecast_data[idx], forecast_type,
                             general_lookup, feedin_lookup)
       IN  /\ general_lookup' = out.general
           /\ feedin_lookup' = out.feedin
           /\ idx' = IF out.raised THEN AfterError(idx, Len(forecast_data))
                     ELSE idx + 1
    /\ UNCHANGED <<slot_i, calls, first_return>>
    /\ UNCHANGED NotConverter
    /\ UNCHANGED <<impl, forecast_data, forecast_type, powerwall_timezone,
                   manual_override, clock, pc, detected_tz, now, date_to_use,
                   general_prices, feedin_prices, result, tariff, slot_i, calls,
          first_return>>

\* ------------------------------------------------------------------------
\* ha: _build_rolling_24h_tariff
\* ------------------------------------------------------------------------
\* Variant: the hour loop stops one hour short, range(23).
SlotHoursShort == 0..22

\* for hour in range(24)
SlotHours == 0..23

\* for minute in [0, 30]
SlotMinutes == {0, 30}

Slots == SlotHours \X SlotMinutes

\* f"PERIOD_{hour:02d}_{minute:02d}": the four digits of HH and MM.
PeriodKey(hour, minute) ==
    <<hour \div 10, hour % 10, minute \div 10, minute % 10>>

\* The dict {PeriodKey(s): val[s]} over the slots s of kept.  PeriodKey is
\* one-to-one on the slots, so each key is written once.
SlotDict(kept, val) ==
    [pk \in {PeriodKey(s[1], s[2]) : s \in kept} |->
        val[<<pk[1] * 10 + pk[2], pk[3] * 10 + pk[4]>>]]

\* Offsets datetime.now(aus_tz) can report for the tzinfo in use.
TzOffsets(tz) ==
    IF tz.kind = "fixed" THEN {tz.off}
    ELSE IF tz.kind = "zone" THEN ZoneOffsets(tz.zone)
    ELSE ZoneOffsets("Australia/Sydney")

\* current_minute = 0 if now.minute < 30 else 30
CurrentMinute(n) == MinuteBucket(n.minute)

\* Variant: the current half-hour counts as passed (<= instead of <).
IsPastInclusive(hour, minute, current_hour, current_minute) ==
    \/ hour < current_hour
    \/ hour = current_hour /\ minute <= current_minute

\* The period has already passed today.
IsPast(hour, minute, current_hour, current_minute) ==
    \/ hour < current_hour
    \/ hour = current_hour /\ minute < current_minute

DateToUse(n, hour, minute) ==
    IF IsPast(hour, minute, n.hour, CurrentMinute(n)) THEN n.day + 1 ELSE n.day

\* Variant: the fallback looks at tomorrow again instead of today.
FallbackKeyTomorrow(today, hour, minute) == <<today + 1, hour, minute>>

\* fallback_key = (today.isoformat(), hour, minute)
FallbackKey(today, hour, minute) == <<today, hour, minute>>

\* Variant: the "no negative prices" clamp is missing.
ClampNonNegMissing(price) == price

\* max(0, price)
ClampNonNeg(price) == Max(0, price)

\* Variant: the "sell cannot exceed buy" cap is missing.
CapToBuyMissing(sell_price, buy_price) == sell_price

\* min(sell_price, general_prices[period_key])
CapToBuy(sell_price, buy_price) == Min(sell_price, buy_price)

\* general_prices[period_key] of one slot
BuyPrice(gl, lookup_key, fallback_key) ==
    IF HasKey(gl, lookup_key)
    THEN ClampNonNeg(AveragePrice(gl[lookup_key]))
    ELSE IF HasKey(gl, fallback_key)
    THEN ClampNonNeg(AveragePrice(gl[fallback_key]))
    ELSE 0

\* feedin_prices[period_key] of one slot; period_key is always in
\* general_prices at that point, buy_price is its value.
SellPrice(fl, lookup_key, fallback_key, buy_price) ==
    IF HasKey(fl, lookup_key)
    THEN CapToBuy(ClampNonNeg(AveragePrice(fl[lookup_key])), buy_price)
    ELSE IF HasKey(fl, fallback_key)
    THEN CapToBuy(ClampNonNeg(AveragePrice(fl[fallback_key])), buy_price)
    ELSE 0

HASlotKey(n, s) == <<DateToUse(n, s[1], s[2]), s[1], s[2]>>

HASlotBuy(gl, n, s) ==
    BuyPrice(gl, HASlotKey(n, s), FallbackKey(n.day, s[1], s[2]))

HASlotSell(gl, fl, n, s) ==
    SellPrice(fl, HASlotKey(n, s), FallbackKey(n.day, s[1], s[2]),
              HASlotBuy(gl, n, s))

HABuildRolling ==
    /\ pc = "normalize"
    /\ impl = "ha"
    /\ idx > Len(forecast_data)
    /\ \E off \in TzOffsets(detected_tz) :
         LET n == NowIn(clock, off)
         IN  /\ now' = n
             /\ date_to_use' =
                  SlotDict(Slots, [s \in Slots |-> DateToUse(n, s[1], s[2])])
             /\ general_prices' =
                  SlotDict(Slots, [s \in Slots |-> HASlotBuy(general_lookup, n, s)])
             /\ feedin_prices' =
                  SlotDict(Slots, [s \in Slots |->
                              HASlotSell(general_lookup, feedin_lookup, n, s)])
    /\ pc' = "structure"
    /\ slot_i' = Cardinality(Slots)
    /\ UNCHANGED <<calls, first_return>>
    /\ UNCHANGED NotConverter
    /\ UNCHANGED <<impl, forecast_data, forecast_type, powerwall_timezone,
                   manual_override, clock, idx, detected_tz, general_lookup,
                   feedin_lookup, result, tariff>>

\* ------------------------------------------------------------------------
\* _build_tou_periods and _build_tariff_structure (same in both converters)
\* ------------------------------------------------------------------------
\* int(parts[1]), int(parts[2]) of period_key.split("_")
KeyHour(period_key) == period_key[1] * 10 + period_key[2]

KeyMinute(period_key) == period_key[3] * 10 + period_key[4]

\* period_def: a dict whose zero-valued fields are left out.
PeriodDef(period_key) ==
    LET from_hour == KeyHour(period_key)
        from_minute == KeyMinute(period_key)
        wraps == from_minute + 30 >= 60
        to_minute == IF wraps THEN 0 ELSE from_minute + 30
        to_hour == IF wraps THEN from_hour + 1 ELSE from_hour
        fields == {"toDayOfWeek"}
                  \cup (IF from_hour > 0 THEN {"fromHour"} ELSE {})
                  \cup (IF from_minute > 0 THEN {"fromMinute"} ELSE {})
                  \cup (IF to_hour # from_hour \/ to_hour > 0 THEN {"toHour"} ELSE {})
                  \cup (IF to_minute > 0 THEN {"toMinute"} ELSE {})
    IN  [f \in fields |->
            IF f = "toDayOfWeek" THEN 6
            ELSE IF f = "fromHour" THEN from_hour
            ELSE IF f = "fromMinute" THEN from_minute
            ELSE IF f = "toHour" THEN to_hour
            ELSE to_minute]

BuildTouPeriods(period_keys) == [pk \in period_keys |-> PeriodDef(pk)]

BuildTariffStructure(gp, fp) ==
    [rates |-> gp, sell_rates |-> fp,
     tou_periods |-> BuildTouPeriods(DOMAIN gp),
     sell_tou_periods |-> BuildTouPeriods(DOMAIN gp)]

HABuildStructure ==
    /\ pc = "structure"
    /\ impl = "ha"
    /\ tariff' = BuildTariffStructure(general_prices, feedin_prices)
    /\ result' = "tariff"
    /\ pc' = "done"
    /\ UNCHANGED <<slot_i, calls, first_return>>
    /\ UNCHANGED NotConverter
    /\ UNCHANGED <<impl, forecast_data, forecast_type, powerwall_timezone,
                   manual_override, clock, idx, detected_tz, general_lookup,
                   feedin_lookup, now, date_to_use, general_prices,
                   feedin_prices>>

\* ------------------------------------------------------------------------
\* app: AmberTariffConverter.convert_amber_to_tesla_tariff
\* ------------------------------------------------------------------------
\* The app converter does not round: its prices are floats.  They are kept
\* here as integers in 1/AppScale of 1/100000 dollar.
AppScale == 1000

\* point.get('advancedPrice', 0) / 100, or TypeError for a dict
AppSelectPrice(point) ==
    LET adv == point.advancedPrice
    IN  IF adv.kind = "none" THEN Value(0)
        ELSE IF adv.kind = "num" THEN Value(adv.num * AppScale)
        ELSE Raised

AppProcessOne(point, gl, fl) ==
    IF ~point.nemTime.ok THEN [raised |-> TRUE, general |-> gl, feedin |-> fl]
    ELSE
    LET timestamp == point.nemTime
        sel == AppSelectPrice(point)
        lookup_key == LookupKey(timestamp)
    IN  IF sel.raised THEN [raised |-> TRUE, general |-> gl, feedin |-> fl]
        ELSE IF point.channelType = "general"
        THEN [raised |-> FALSE,
              general |-> AppendPrice(gl, lookup_key, sel.value), feedin |-> fl]
        ELSE IF point.channelType = "feedIn"
        THEN [raised |-> FALSE, general |-> gl,
              feedin |-> AppendPrice(fl, lookup_key, sel.value)]
        ELSE [raised |-> FALSE, general |-> gl, feedin |-> fl]

AppStart ==
    /\ pc = "start"
    /\ impl = "app"
    /\ IF NoForecastData(forecast_data)
       THEN /\ result' = "None"
            /\ pc' = "done"
       ELSE /\ pc' = "normalize"
            /\ UNCHANGED result
    /\ UNCHANGED <<slot_i, calls, first_return>>
    /\ UNCHANGED NotConverter
    /\ UNCHANGED <<impl, forecast_data, forecast_type, powerwall_timezone,
                   manual_override, clock, idx, detected_tz, general_lookup,
                   feedin_lookup, now, date_to_use, general_prices,
                   feedin_prices, tariff>>

AppProcessPoint ==
    /\ pc = "normalize"
    /\ impl = "app"
    /\ idx <= Len(forecast_data)
    /\ LET out == AppProcessOne(forecast_data[idx], general_lookup, feedin_lookup)
       IN  /\ general_lookup' = out.general
           /\ feedin_lookup' = out.feedin
           /\ idx' = IF out.raised THEN AfterError(idx, Len(forecast_data))
                     ELSE idx + 1
    /\ UNCHANGED <<slot_i, calls, first_return>>
    /\ UNCHANGED NotConverter
    /\ UNCHANGED <<impl, forecast_data, forecast_type, powerwall_timezone,
                   manual_override, clock, pc, detected_tz, now, date_to_use,
                   general_prices, feedin_prices, result, tariff, slot_i, calls,
          first_return>>

\* ------------------------------------------------------------------------
\* app: AmberTariffConverter._build_rolling_24h_tariff
\* ------------------------------------------------------------------------
\* sum(prices) / len(prices), unrounded
AppAverage(prices) == RoundDiv(Sum(prices), Len(prices))

AppSlotKey(n, s) == <<DateToUse(n, s[1], s[2]), s[1], s[2]>>

\* general_prices[period_key] when lookup_key is in general_lookup
AppSlotBuy(gl, n, s) == ClampNonNeg(AppAverage(gl[AppSlotKey(n, s)]))

\* feedin_prices[period_key] when lookup_key is in feedin_lookup
AppSlotSell(gl, fl, n, s) ==
    LET sell_price == ClampNonNeg(AppAverage(fl[AppSlotKey(n, s)]))
    IN  IF HasKey(gl, AppSlotKey(n, s))
        THEN CapToBuy(sell_price, AppSlotBuy(gl, n, s))
        ELSE sell_price

AppBuildRolling ==
    /\ pc = "normalize"
    /\ impl = "app"
    /\ idx > Len(forecast_data)
    /\ \E off \in ServerOffsets :
         LET n == NowIn(clock, off)
             has_buy == {s \in Slots : HasKey(general_lookup, AppSlotKey(n, s))}
             has_sell == {s \in Slots : HasKey(feedin_lookup, AppSlotKey(n, s))}
         IN  /\ now' = n
             /\ date_to_use' =
                  SlotDict(Slots, [s \in Slots |-> DateToUse(n, s[1], s[2])])
             /\ general_prices' =
                  SlotDict(has_buy, [s \in has_buy |->
                              AppSlotBuy(general_lookup, n, s)])
             /\ feedin_prices' =
                  SlotDict(has_sell, [s \in has_sell |->
                              AppSlotSell(general_lookup, feedin_lookup, n, s)])
    /\ pc' = "structure"
    /\ slot_i' = Cardinality(Slots)
    /\ UNCHANGED <<calls, first_return>>
    /\ UNCHANGED NotConverter
    /\ UNCHANGED <<impl, forecast_data, forecast_type, powerwall_timezone,
                   manual_override, clock, idx, detected_tz, general_lookup,
                   feedin_lookup, result, tariff>>

\* ------------------------------------------------------------------------
\* app: _apply_manual_override, then _build_tariff_structure
\* ------------------------------------------------------------------------
SetMin(S) == CHOOSE x \in S : \A y \in S : x <= y

SetMax(S) == CHOOSE x \in S : \A y \in S : x >= y

\* [p for p in prices.values() if p > 0]
PositiveValues(prices) == {prices[k] : k \in {j \in DOMAIN prices : prices[j] > 0}}

\* Defaults 0.05, 0.30 and 0.20 dollars
DefaultMinBuy == 5000 * AppScale

DefaultMaxBuy == 30000 * AppScale

DefaultMaxSell == 20000 * AppScale

ApplyManualOverride(gp, fp, mode) ==
    LET buy_prices == PositiveValues(gp)
        sell_prices == PositiveValues(fp)
        min_buy == IF buy_prices # {} THEN SetMin(buy_prices) ELSE DefaultMinBuy
        max_buy == IF buy_prices # {} THEN SetMax(buy_prices) ELSE DefaultMaxBuy
        max_sell == IF sell_prices # {} THEN SetMax(sell_prices) ELSE DefaultMaxSell
    IN  IF mode = "charge"
        THEN [general |-> [k \in DOMAIN gp |-> min_buy],
              feedin |-> [k \in DOMAIN fp |-> max_sell]]
        ELSE IF mode = "discharge"
        THEN [general |-> [k \in DOMAIN gp |-> max_buy],
              feedin |-> [k \in DOMAIN fp |-> max_sell]]
        ELSE [general |-> gp, feedin |-> fp]

AppBuildStructure ==
    /\ pc = "structure"
    /\ impl = "app"
    /\ LET over == IF manual_override # ""
                   THEN ApplyManualOverride(general_prices, feedin_prices,
                                            manual_override)
                   ELSE [general |-> general_prices, feedin |-> feedin_prices]
       IN  /\ general_prices' = over.general
           /\ feedin_prices' = over.feedin
           /\ tariff' = BuildTariffStructure(over.general, over.feedin)
    /\ result' = "tariff"
    /\ pc' = "done"
    /\ UNCHANGED <<slot_i, calls, first_return>>
    /\ UNCHANGED NotConverter
    /\ UNCHANGED <<impl, forecast_data, forecast_type, powerwall_timezone,
                   manual_override, clock, idx, detected_tz, general_lookup,
                   feedin_lookup, now, date_to_use>>

\* ------------------------------------------------------------------------
\* Specification
\* ------------------------------------------------------------------------
Next ==
    \/ HAStart
    \/ HAProcessPoint
    \/ HABuildRolling
    \/ HABuildStructure
    \/ AppStart
    \/ AppProcessPoint
    \/ AppBuildRolling
    \/ AppBuildStructure

Spec == Init /\ [][Next]_vars

\* ------------------------------------------------------------------------
\* The ha converter under a running clock: the builder's loop slot by slot,
\* the wall clock advancing at any moment, and a second invocation with the
\* same arguments (the periodic sync calls the converter again and again).
\* ------------------------------------------------------------------------
\* Points of the batches converted under the running clock.
ClockPoints == {GeneralActual5, GeneralForecastMap, FeedInActualMidnight}

\* Instants the clock can advance to; 840 is day 1 at 00:00 in +10:00.
LaterClocks == Clocks \cup {840}

InitClock ==
    /\ impl = "ha"
    /\ forecast_data \in SeqsUpTo(ClockPoints, MaxPoints)
    /\ forecast_type = "predicted"
    /\ powerwall_timezone = ""
    /\ manual_override = ""
    /\ clock \in Clocks
    /\ pc = "start"
    /\ idx = 1
    /\ detected_tz = NoTz
    /\ general_lookup = EmptyDict
    /\ feedin_lookup = EmptyDict
    /\ now = NoNow
    /\ date_to_use = EmptyDict
    /\ general_prices = EmptyDict
    /\ feedin_prices = EmptyDict
    /\ result = "pending"
    /\ tariff = NoTariff
    /\ slot_i = 0
    /\ calls = 1
    /\ first_return = NoReturn
    /\ NoJobs

\* Time passes.
Tick ==
    /\ calls = 1 \/ pc # "done"
    /\ \E c \in LaterClocks : c > clock /\ clock' = c
    /\ UNCHANGED NotConverter
    /\ UNCHANGED <<impl, forecast_data, forecast_type, powerwall_timezone,
                   manual_override, pc, idx, detected_tz, general_lookup,
                   feedin_lookup, now, date_to_use, general_prices,
                   feedin_prices, result, tariff, slot_i, calls, first_return>>

\* now = datetime.now(aus_tz) and the values derived from it, before the
\* loop over the slots.
HACaptureNow ==
    /\ pc = "normalize"
    /\ impl = "ha"
    /\ idx > Len(forecast_data)
    /\ \E off \in TzOffsets(detected_tz) : now' = NowIn(clock, off)
    /\ date_to_use' = EmptyDict
    /\ general_prices' = EmptyDict
    /\ feedin_prices' = EmptyDict
    /\ slot_i' = 0
    /\ pc' = "slots"
    /\ UNCHANGED NotConverter
    /\ UNCHANGED <<impl, forecast_data, forecast_type, powerwall_timezone,
                   manual_override, clock, idx, detected_tz, general_lookup,
                   feedin_lookup, result, tariff, calls, first_return>>

\* The (hour, minute) of the i-th iteration of the two nested loops.
SlotAt(i) == <<i \div 2, 30 * (i % 2)>>

\* Variant: each iteration reads the clock again.
SlotInstantLive(captured, live) == live

\* The instant an iteration decides with: the one read before the loop.
SlotInstant(captured, live) == captured

\* One iteration of the loop over the slots.
HABuildSlot ==
    /\ pc = "slots"
    /\ impl = "ha"
    /\ slot_i < Cardinality(Slots)
    /\ LET s == SlotAt(slot_i)
           n == SlotInstant(now, NowIn(clock, now.off))
           period_key == PeriodKey(s[1], s[2])
       IN  /\ date_to_use' = date_to_use @@ (period_key :> DateToUse(n, s[1], s[2]))
           /\ general_prices' =
                general_prices @@ (period_key :> HASlotBuy(general_lookup, n, s))
           /\ feedin_prices' =
                feedin_prices @@
                    (period_key :> HASlotSell(general_lookup, feedin_lookup, n, s))
    /\ slot_i' = slot_i + 1
    /\ pc' = IF slot_i + 1 = Cardinality(Slots) THEN "structure" ELSE "slots"
    /\ UNCHANGED NotConverter
    /\ UNCHANGED <<impl, forecast_data, forecast_type, powerwall_timezone,
                   manual_override, clock, idx, detected_tz, general_lookup,
                   feedin_lookup, now, result, tariff, calls, first_return>>

\* The caller invokes the converter a second time with the same arguments.
Reinvoke ==
    /\ pc = "done"
    /\ calls = 1
    /\ calls' = 2
    /\ first_return' = [result |-> result, tariff |-> tariff]
    /\ pc' = "start"
    /\ idx' = 1
    /\ detected_tz' = NoTz
    /\ general_lookup' = EmptyDict
    /\ feedin_lookup' = EmptyDict
    /\ now' = NoNow
    /\ date_to_use' = EmptyDict
    /\ general_prices' = EmptyDict
    /\ feedin_prices' = EmptyDict
    /\ result' = "pending"
    /\ tariff' = NoTariff
    /\ slot_i' = 0
    /\ UNCHANGED NotConverter
    /\ UNCHANGED <<impl, forecast_data, forecast_type, powerwall_timezone,
                   manual_override, clock>>

NextClock ==
    \/ HAStart
    \/ HAProcessPoint
    \/ HACaptureNow
    \/ HABuildSlot
    \/ HABuildStructure
    \/ Tick
    \/ Reinvoke

SpecClock == InitClock /\ [][NextClock]_vars

\* ------------------------------------------------------------------------
\* The ha converter on batches of 5-minute samples that share one half hour
\* ------------------------------------------------------------------------
\* Six buy samples in cents/kWh (0.10 .. 0.15 $/kWh) and two feedIn samples.
GeneralSampleCents == <<10000, 12000, 11000, 13000, 9000, 15000>>

FeedInSampleCents == <<-8010, -8020>>

\* The i-th 5-minute sample of the half hour 17:30-18:00 of day 0; it ends
\* at 17:30 + 5 i.
SamplePoint(channel, cents, i) ==
    Point(NemTime(0, (1050 + 5 * i) \div 60, (1050 + 5 * i) % 60), channel, 5,
          "ActualInterval", cents[i], NoAdv)

\* Orders in which the feed lists the samples.
GeneralSampleOrders == {<<1, 2, 3, 4, 5, 6>>, <<6, 5, 4, 3, 2, 1>>, <<5, 1, 3, 2, 4, 6>>}

FeedInSampleOrders == {<<1, 2>>, <<2, 1>>}

\* The batches: the first n samples of an order, for each channel.
SampleBatches(channel, cents, orders) ==
    {[j \in 1..n |-> SamplePoint(channel, cents, o[j])] :
        o \in orders, n \in 0..Len(cents)}

AverageForecasts ==
    {g \o f : g \in SampleBatches("general", GeneralSampleCents, GeneralSampleOrders),
              f \in SampleBatches("feedIn", FeedInSampleCents, FeedInSampleOrders)}

InitAverage ==
    /\ impl = "ha"
    /\ forecast_data \in AverageForecasts
    /\ forecast_type = "predicted"
    /\ powerwall_timezone = ""
    /\ manual_override = ""
    /\ clock \in Clocks
    /\ pc = "start"
    /\ idx = 1
    /\ detected_tz = NoTz
    /\ general_lookup = EmptyDict
    /\ feedin_lookup = EmptyDict
    /\ now = NoNow
    /\ date_to_use = EmptyDict
    /\ general_prices = EmptyDict
    /\ feedin_prices = EmptyDict
    /\ result = "pending"
    /\ tariff = NoTariff
    /\ slot_i = 0
    /\ calls = 1
    /\ first_return = NoReturn
    /\ NoJobs

NextAverage ==
    \/ HAStart
    \/ HAProcessPoint
    \/ HABuildRolling
    \/ HABuildStructure

SpecAverage == InitAverage /\ [][NextAverage]_vars

\* ------------------------------------------------------------------------
\* app/tasks.py: sync_all_users and monitor_aemo_prices for one user whose
\* AEMO spike detection is enabled and configured.  Both jobs are scheduled
\* every 5 minutes and run in the scheduler's threads, so the steps of one
\* may fall between the steps of the other.
\* ------------------------------------------------------------------------
\* SavedTOUProfile rows the model lets the monitor create.
MaxBackups == 2

\* No conversion run is in progress.
NoRun ==
    /\ impl = "app"
    /\ forecast_data = <<>>
    /\ forecast_type = "predicted"
    /\ powerwall_timezone = ""
    /\ manual_override = ""
    /\ clock = 0
    /\ pc = "start"
    /\ idx = 1
    /\ detected_tz = NoTz
    /\ general_lookup = EmptyDict
    /\ feedin_lookup = EmptyDict
    /\ now = NoNow
    /\ date_to_use = EmptyDict
    /\ general_prices = EmptyDict
    /\ feedin_prices = EmptyDict
    /\ result = "pending"
    /\ tariff = NoTariff
    /\ slot_i = 0
    /\ calls = 1
    /\ first_return = NoReturn

\* What the spike monitoring and the sync job leave alone.
NotSpike == <<convVars, otherVars>>

InitSpike ==
    /\ NoRun
    /\ OthersIdle
    /\ SpikeInit
    /\ sync_enabled \in BOOLEAN

\* user.aemo_spike_threshold or 300.0, in $/MWh
aemo_spike_threshold == 300

\* Prices check_price_spike can report, in $/MWh; 0 stands for None (the
\* price could not be fetched).
AemoPrices == {0, 120, 300, 1000}

\* is_spike of check_price_spike: the price is at or above the threshold.
CheckPriceSpike(price, threshold) == price >= threshold

\* sync_all_users, the loop body for the user: fetch the forecast, convert
\* it and send the Amber tariff to the site.  It reads none of the aemo_*
\* fields.
SyncUser ==
    /\ sync_enabled
    /\ \E applied \in BOOLEAN :
         site_tariff' = IF applied THEN AmberTariff ELSE site_tariff
    /\ UNCHANGED <<sync_enabled, aemo_in_spike_mode, aemo_saved_tariff_id,
                   saved_profiles, mon_pc, current_price, current_tariff,
                   episode_start_tariff>>
    /\ UNCHANGED NotSpike

\* monitor_aemo_prices: the price check and the choice of the branch.
MonitorCheck ==
    /\ mon_pc = "idle"
    /\ \E price \in AemoPrices :
         /\ current_price' = price
         /\ mon_pc' =
              IF price = 0 THEN "idle"
              ELSE IF CheckPriceSpike(price, aemo_spike_threshold) /\ ~aemo_in_spike_mode
              THEN "site_status"
              ELSE IF ~CheckPriceSpike(price, aemo_spike_threshold) /\ aemo_in_spike_mode
              THEN "restore"
              ELSE "idle"
         /\ (CheckPriceSpike(price, aemo_spike_threshold) /\ ~aemo_in_spike_mode)
               => Len(saved_profiles) < MaxBackups
    /\ current_tariff' = NoCurrentTariff
    /\ UNCHANGED <<site_tariff, sync_enabled, aemo_in_spike_mode,
                   aemo_saved_tariff_id, saved_profiles, episode_start_tariff>>
    /\ UNCHANGED NotSpike

\* Spike detected: get_site_status; a battery that already exports more
\* than 100 W ends the cycle with the user marked as in spike mode.
MonitorSiteStatus ==
    /\ mon_pc = "site_status"
    /\ \E exporting \in BOOLEAN :
         IF exporting
         THEN /\ aemo_in_spike_mode' = TRUE
              /\ episode_start_tariff' = site_tariff
              /\ mon_pc' = "idle"
         ELSE /\ mon_pc' = "backup"
              /\ UNCHANGED <<aemo_in_spike_mode, episode_start_tariff>>
    /\ UNCHANGED <<site_tariff, sync_enabled, aemo_saved_tariff_id, saved_profiles,
                   current_price, current_tariff>>
    /\ UNCHANGED NotSpike

\* Step 1: get_current_tariff; if it returns a tariff, a SavedTOUProfile
\* row is added and its id stored in the user record.
MonitorBackup ==
    /\ mon_pc = "backup"
    /\ \E fetched \in BOOLEAN :
         IF fetched
         THEN /\ current_tariff' = site_tariff
              /\ saved_profiles' = Append(saved_profiles, site_tariff)
              /\ aemo_saved_tariff_id' = Len(saved_profiles) + 1
         ELSE /\ current_tariff' = NoCurrentTariff
              /\ UNCHANGED <<saved_profiles, aemo_saved_tariff_id>>
    /\ mon_pc' = "upload"
    /\ UNCHANGED <<site_tariff, sync_enabled, aemo_in_spike_mode, current_price,
                   episode_start_tariff>>
    /\ UNCHANGED NotSpike

\* Step 2: create_spike_tariff and set_tariff_rate; on success the user is
\* marked as in spike mode.
MonitorUploadSpike ==
    /\ mon_pc = "upload"
    /\ \E uploaded \in BOOLEAN :
         IF uploaded
         THEN /\ site_tariff' = SpikeTariff
              /\ aemo_in_spike_mode' = TRUE
              /\ episode_start_tariff' = site_tariff
         ELSE UNCHANGED <<site_tariff, aemo_in_spike_mode, episode_start_tariff>>
    /\ mon_pc' = "idle"
    /\ UNCHANGED <<sync_enabled, aemo_saved_tariff_id, saved_profiles, current_price,
                   current_tariff>>
    /\ UNCHANGED NotSpike

\* Price back to normal: restore the saved tariff, or leave spike mode
\* without a restore when no backup id is stored.
MonitorRestore ==
    /\ mon_pc = "restore"
    /\ IF aemo_saved_tariff_id # 0
       THEN \E restored \in BOOLEAN :
              IF restored
              THEN /\ site_tariff' = saved_profiles[aemo_saved_tariff_id]
                   /\ aemo_in_spike_mode' = FALSE
              ELSE UNCHANGED <<site_tariff, aemo_in_spike_mode>>
       ELSE /\ aemo_in_spike_mode' = FALSE
            /\ UNCHANGED site_tariff
    /\ mon_pc' = "idle"
    /\ UNCHANGED <<sync_enabled, aemo_saved_tariff_id, saved_profiles, current_price,
                   current_tariff, episode_start_tariff>>
    /\ UNCHANGED NotSpike

NextSpike ==
    \/ SyncUser
    \/ MonitorCheck
    \/ MonitorSiteStatus
    \/ MonitorBackup
    \/ MonitorUploadSpike
    \/ MonitorRestore

SpecSpike == InitSpike /\ [][NextSpike]_vars

\* ------------------------------------------------------------------------
\* app/tasks.py: create_spike_tariff, called by monitor_aemo_prices with the
\* price that check_price_spike reported at or above the user's threshold.
\* Rates are in 1/10000 $/kWh.
\* ------------------------------------------------------------------------
\* Thresholds a user can have configured, $/MWh.
SpikeThresholds == {50, aemo_spike_threshold}

\* Prices the function is called with, $/MWh.
SpikePrices == {60, 300, 1000}

\* Periods of the day: i is "HH:MM" with hour = i // 2, minute = 30 * (i % 2).
PeriodIndexes == 0 .. 47

InitSpikeTariff ==
    /\ NoRun
    /\ SpikeInit
    /\ sync_enabled = FALSE
    /\ NoSend
    /\ NoCustomBuild
    /\ spike_threshold \in SpikeThresholds
    /\ current_aemo_price_mwh \in
           {p \in SpikePrices : CheckPriceSpike(p, spike_threshold)}
    /\ current_period_index \in PeriodIndexes
    /\ cst_pc = "start"
    /\ spike_buy_rates = EmptyDict
    /\ spike_sell_rates = EmptyDict

\* (current_aemo_price_mwh / 1000.0) * 3.0
SellRateSpike(price_mwh) == price_mwh * 30

buy_rate_normal == 3000

sell_rate_normal == 800

spike_window_periods == 4

\* spike_end = (current_period_index + spike_window_periods) % 48
SpikeEnd(spike_start) == (spike_start + spike_window_periods) % 48

\* is_spike_period, with the window wrapping around midnight
IsSpikePeriod(i, spike_start) ==
    IF spike_start < SpikeEnd(spike_start)
        THEN spike_start <= i /\ i < SpikeEnd(spike_start)
        ELSE i >= spike_start \/ i < SpikeEnd(spike_start)

CreateSpikeTariff ==
    /\ cst_pc = "start"
    /\ spike_buy_rates' = [i \in PeriodIndexes |-> buy_rate_normal]
    /\ spike_sell_rates' =
           [i \in PeriodIndexes |->
               IF IsSpikePeriod(i, current_period_index)
                   THEN SellRateSpike(current_aemo_price_mwh)
                   ELSE sell_rate_normal]
    /\ cst_pc' = "done"
    /\ UNCHANGED <<spike_threshold, current_aemo_price_mwh, current_period_index>>
    /\ UNCHANGED <<convVars, spikeVars, sendVars, customVars>>

NextSpikeTariff == CreateSpikeTariff

SpecSpikeTariff == InitSpikeTariff /\ [][NextSpikeTariff]_vars

\* ------------------------------------------------------------------------
\* custom_components/tesla_amber_sync/__init__.py: send_tariff_to_tesla.
\* One step per pass of the retry loop: the POST, the reading of the
\* response body and the except clause that handles what was raised.
\* ------------------------------------------------------------------------
\* Largest max_retries a call is made with (the default is 3).
MaxRetries == 3

\* response.status values: success, a client error, a server error.
Statuses == {200, 404, 503}

\* What can be raised while the request or the body read is awaited.
Raisable == {"ClientError", "TimeoutError", "Exception"}

\* What a POST attempt can meet: an exception raised by session.post, or a
\* response with its status line, whose body (response.json() for a 200,
\* response.text() otherwise) is read or raises.
Outcomes ==
    [kind : {"response"}, status : Statuses, body : {"ok"} \cup Raisable]
    \cup [kind : Raisable, status : {0}, body : {"none"}]

InitSend ==
    /\ NoRun
    /\ SpikeInit
    /\ sync_enabled = FALSE
    /\ NoSpikeTariffCall
    /\ NoCustomBuild
    /\ max_retries \in 0 .. MaxRetries
    /\ attempt = 0
    /\ send_pc = "loop"
    /\ send_result = "pending"
    /\ responses = <<>>

\* The except clauses: "continue" retries, anything else is returned.
OnException(raised) ==
    IF raised \in {"ClientError", "TimeoutError"} THEN "continue" ELSE "False"

\* The body of the async with block for a response whose body is readable.
OnStatus(status) ==
    IF status = 200 THEN "True"
    ELSE IF status >= 500 THEN "continue"
    ELSE "False"

\* What one pass of the loop ends in: "True", "False" or "continue".
AttemptResult(o) ==
    IF o.kind # "response" THEN OnException(o.kind)
    ELSE IF o.body # "ok" THEN OnException(o.body)
    ELSE OnStatus(o.status)

\* One pass of `for attempt in range(max_retries)`.
PostAttempt ==
    /\ send_pc = "loop"
    /\ attempt < max_retries
    /\ \E o \in Outcomes :
         /\ responses' = Append(responses, o)
         /\ attempt' = attempt + 1
         /\ IF AttemptResult(o) = "continue"
               THEN send_pc' = "loop" /\ send_result' = "pending"
               ELSE send_pc' = "returned" /\ send_result' = AttemptResult(o)
    /\ UNCHANGED max_retries
    /\ UNCHANGED <<convVars, spikeVars, tariffVars, customVars>>

\* The loop is exhausted: "All retries failed", return False.
AllRetriesFailed ==
    /\ send_pc = "loop"
    /\ attempt >= max_retries
    /\ send_pc' = "returned"
    /\ send_result' = "False"
    /\ UNCHANGED <<max_retries, attempt, responses>>
    /\ UNCHANGED <<convVars, spikeVars, tariffVars, customVars>>

NextSend ==
    \/ PostAttempt
    \/ AllRetriesFailed

SpecSend == InitSend /\ [][NextSend]_vars

\* ------------------------------------------------------------------------
\* app/custom_tou_builder.py: CustomTOUBuilder.build_tesla_tariff for a
\* schedule whose periods lie on half-hour boundaries.  Rates are in
\* 1/10000 $/kWh; demand rates are copied through and left out.
\* ------------------------------------------------------------------------
\* Periods one season of a schedule has at most.
MaxPeriods == 2

\* A TOUPeriod row; all week (from_day_of_week 0, to_day_of_week 6).
Period(fh, fm, th, tm, buy, sell) ==
    [from_hour |-> fh, from_minute |-> fm, to_hour |-> th, to_minute |-> tm,
     from_day_of_week |-> 0, to_day_of_week |-> 6,
     energy_rate |-> buy, sell_rate |-> sell]

AllDay == Period(0, 0, 0, 0, 3000, 800)

\* Runs overnight and sells dearer than it buys.
OvernightSellHigh == Period(22, 0, 6, 0, 1500, 2000)

\* Sells at exactly the buy rate.
PeakEqual == Period(16, 0, 21, 0, 5000, 5000)

NegativeSell == Period(7, 0, 7, 30, 1000, -100)

NegativeBuy == Period(21, 30, 23, 0, -100, -200)

RatedPeriods == {AllDay, OvernightSellHigh, PeakEqual, NegativeSell, NegativeBuy}

\* Every from and to time on a half-hour boundary, with one pair of rates.
TimedPeriods ==
    {Period(fh, fm, th, tm, 3000, 800) :
        fh \in SlotHours, fm \in SlotMinutes, th \in SlotHours, tm \in SlotMinutes}

Season(name, periods) == [name |-> name, periods |-> periods]

\* season.periods.order_by('display_order').all()
PeriodLists == SeqsUpTo(RatedPeriods, MaxPeriods)

Schedules ==
    {<<>>}
    \cup {<<Season(n, ps)>> : n \in {"Summer", "Winter"}, ps \in PeriodLists}
    \cup {<<Season("Summer", ps), Season("Winter", qs)>> :
              ps \in PeriodLists, qs \in PeriodLists}
    \cup {<<Season("Summer", <<p>>)>> : p \in TimedPeriods}

InitCustom ==
    /\ NoRun
    /\ SpikeInit
    /\ sync_enabled = FALSE
    /\ NoSpikeTariffCall
    /\ NoSend
    /\ schedule \in Schedules
    /\ cust_pc = "season"
    /\ NoSeasonsBuilt

\* One slot of _generate_time_slots, for `current` minutes since midnight.
TimeSlot(current, from_day, to_day) ==
    [period_key |-> PeriodKey((current \div 60) % 24, current % 60),
     from_hour |-> (current \div 60) % 24,
     from_minute |-> current % 60,
     to_hour |-> ((current + 30) \div 60) % 24,
     to_minute |-> (current + 30) % 60,
     from_day_of_week |-> from_day,
     to_day_of_week |-> to_day]

\* while current < end_minutes: ... current += 30
RECURSIVE SlotsUntil(_, _, _, _)
SlotsUntil(current, end_minutes, from_day, to_day) ==
    IF current < end_minutes
        THEN <<TimeSlot(current, from_day, to_day)>>
                 \o SlotsUntil(current + 30, end_minutes, from_day, to_day)
        ELSE <<>>

\* Variant: a period that ends when it starts is not taken as overnight.
EndMinutesStrict(start_minutes, end_minutes) ==
    IF end_minutes < start_minutes THEN end_minutes + 24 * 60 ELSE end_minutes

\* if end_minutes <= start_minutes: end_minutes += 24 * 60
EndMinutes(start_minutes, end_minutes) ==
    IF end_minutes <= start_minutes THEN end_minutes + 24 * 60 ELSE end_minutes

GenerateTimeSlots(from_hour, from_minute, to_hour, to_minute, from_day, to_day) ==
    LET start_minutes == from_hour * 60 + from_minute
        end_minutes == to_hour * 60 + to_minute
    IN  SlotsUntil(start_minutes, EndMinutes(start_minutes, end_minutes),
                   from_day, to_day)

\* period_def of a slot; fields that are 0 are omitted by the code and read
\* as 0 by Tesla.
BuildPeriodDef(slot) ==
    [fromDayOfWeek |-> slot.from_day_of_week, toDayOfWeek |-> slot.to_day_of_week,
     fromHour |-> slot.from_hour, fromMinute |-> slot.from_minute,
     toHour |-> slot.to_hour, toMinute |-> slot.to_minute]

\* The keys of a list of slots.
SlotKeys(ss) == {ss[i].period_key : i \in DOMAIN ss}

\* rates[period_key] = rate for every slot of the list.
SetRates(rates, ss, rate) ==
    [k \in DOMAIN rates \cup SlotKeys(ss) |->
        IF k \in SlotKeys(ss) THEN rate ELSE rates[k]]

\* if period_key not in tou_periods: tou_periods[period_key] = ...
AddTouPeriods(tp, ss) ==
    [k \in DOMAIN tp \cup SlotKeys(ss) |->
        IF k \in DOMAIN tp THEN tp[k]
        ELSE BuildPeriodDef(ss[CHOOSE i \in DOMAIN ss : ss[i].period_key = k])]

\* Variant: the comparison of the sell rate with the buy rate is left out.
ViolationsSignOnly(er, sr) ==
    {k \in DOMAIN er : er[k] < 0 \/ (IF HasKey(sr, k) THEN sr[k] ELSE 0) < 0}

\* The period keys _validate_rates reports.
Violations(er, sr) ==
    {k \in DOMAIN er :
        LET buy_rate == er[k]
            sell_rate == IF HasKey(sr, k) THEN sr[k] ELSE 0
        IN  buy_rate < 0 \/ sell_rate < 0 \/ sell_rate > buy_rate}

\* One pass of `for period in periods_list`.
CustomProcessPeriod ==
    /\ cust_pc = "season"
    /\ season_i <= Len(schedule)
    /\ period_i <= Len(schedule[season_i].periods)
    /\ LET period == schedule[season_i].periods[period_i]
           ss == GenerateTimeSlots(period.from_hour, period.from_minute,
                                   period.to_hour, period.to_minute,
                                   period.from_day_of_week, period.to_day_of_week)
       IN  /\ slots' = ss
           /\ tou_periods' = AddTouPeriods(tou_periods, ss)
           /\ energy_rates' = SetRates(energy_rates, ss, period.energy_rate)
           /\ sell_rates' = SetRates(sell_rates, ss, period.sell_rate)
    /\ period_i' = period_i + 1
    /\ UNCHANGED <<schedule, season_i, cust_pc, seasons_data, energy_charges,
                   sell_energy_charges, custom_result>>
    /\ UNCHANGED <<convVars, spikeVars, tariffVars, sendVars>>

\* _validate_rates for the season, then the season is added to the
\* structure, or ValueError leaves build_tesla_tariff.
CustomValidateSeason ==
    /\ cust_pc = "season"
    /\ season_i <= Len(schedule)
    /\ period_i > Len(schedule[season_i].periods)
    /\ IF Violations(energy_rates, sell_rates) # {}
          THEN /\ cust_pc' = "raised"
               /\ custom_result' = "ValueError"
               /\ UNCHANGED <<season_i, period_i, tou_periods, energy_rates,
                              sell_rates, seasons_data, energy_charges,
                              sell_energy_charges>>
          ELSE /\ seasons_data' =
                    seasons_data @@ (schedule[season_i].name :> tou_periods)
               /\ energy_charges' =
                    energy_charges @@ (schedule[season_i].name :> energy_rates)
               /\ sell_energy_charges' =
                    sell_energy_charges @@ (schedule[season_i].name :> sell_rates)
               /\ season_i' = season_i + 1
               /\ period_i' = 1
               /\ tou_periods' = EmptyDict
               /\ energy_rates' = EmptyDict
               /\ sell_rates' = EmptyDict
               /\ UNCHANGED <<cust_pc, custom_result>>
    /\ UNCHANGED <<schedule, slots>>
    /\ UNCHANGED <<convVars, spikeVars, tariffVars, sendVars>>

\* The loop over the seasons is over: the tariff is built and returned.
CustomReturn ==
    /\ cust_pc = "season"
    /\ season_i > Len(schedule)
    /\ cust_pc' = "returned"
    /\ custom_result' = "tariff"
    /\ UNCHANGED <<schedule, season_i, period_i, slots, tou_periods, energy_rates,
                   sell_rates, seasons_data, energy_charges, sell_energy_charges>>
    /\ UNCHANGED <<convVars, spikeVars, tariffVars, sendVars>>

NextCustom ==
    \/ CustomProcessPeriod
    \/ CustomValidateSeason
    \/ CustomReturn

SpecCustom == InitCustom /\ [][NextCustom]_vars

\* ------------------------------------------------------------------------
\* Vocabulary of the properties
\* ------------------------------------------------------------------------
\* The builder has run (its results are in general_prices / feedin_prices).
Built == pc \in {"structure", "done"} /\ result # "None"

\* The 48 keys PERIOD_HH_MM, HH in 00..23, MM in {00, 30}, as digit strings.
ExpectedPeriodKeys ==
    {k \in (0..2) \X (0..9) \X {0, 3} \X {0} : k[1] * 10 + k[2] <= 23}

\* Minutes after midnight of the slot a period key names.
SlotOfDay(pk) == 60 * (10 * pk[1] + pk[2]) + 10 * pk[3] + pk[4]

\* The half-hour of the day that contains the instant n.
HalfHourOfDay(n) == 30 * ((60 * n.hour + n.minute) \div 30)

\* A bucket of either lookup exists for the slot on one of the two days.
SlotHasData(pk) ==
    \E d \in {now.day, now.day + 1} :
        LET k == <<d, SlotOfDay(pk) \div 60, SlotOfDay(pk) % 60>>
        IN  HasKey(general_lookup, k) \/ HasKey(feedin_lookup, k)

\* C1: every tariff returned by the ha converter has exactly the 48 keys
\* PERIOD_HH_MM in its buy-rate map and in its sell-rate map; a slot without
\* any data in either lookup is emitted with price 0, never omitted.
C1_Completeness ==
    (impl = "ha" /\ result = "tariff") =>
        /\ DOMAIN tariff.rates = ExpectedPeriodKeys
        /\ DOMAIN tariff.sell_rates = ExpectedPeriodKeys
        /\ Cardinality(DOMAIN tariff.rates) = 48
        /\ Cardinality(DOMAIN tariff.sell_rates) = 48
        /\ \A pk \in ExpectedPeriodKeys :
              ~SlotHasData(pk) => tariff.rates[pk] = 0 /\ tariff.sell_rates[pk] = 0

\* A tariff was returned although the last hour of the day has no data at
\* all, while some other slot carries a real price.
C1_Witness ==
    /\ impl = "ha"
    /\ result = "tariff"
    /\ ~SlotHasData(<<2, 3, 3, 0>>)
    /\ ~SlotHasData(<<2, 3, 0, 0>>)
    /\ tariff.rates[<<2, 3, 3, 0>>] = 0
    /\ \E pk \in DOMAIN tariff.rates : tariff.rates[pk] > 0

\* C2: in every result of the ha builder, sell_price <= buy_price in each
\* slot.
C2_SellAtMostBuy ==
    (impl = "ha" /\ Built) =>
        \A pk \in ExpectedPeriodKeys :
            /\ pk \in DOMAIN general_prices
            /\ pk \in DOMAIN feedin_prices
            /\ feedin_prices[pk] <= general_prices[pk]

\* A slot whose averaged buy price is negative (clamped to 0) while its sell
\* bucket averages to a positive price: the sell price was cut down to 0.
C2_Witness ==
    /\ impl = "ha"
    /\ Built
    /\ \E k \in DOMAIN general_lookup \cap DOMAIN feedin_lookup :
          /\ k[1] = date_to_use[PeriodKey(k[2], k[3])]
          /\ Sum(general_lookup[k]) < 0
          /\ Sum(feedin_lookup[k]) > 0
          /\ general_prices[PeriodKey(k[2], k[3])] = 0
          /\ feedin_prices[PeriodKey(k[2], k[3])] = 0

\* C3: in every result of the ha builder, buy_price >= 0 and sell_price >= 0
\* in each slot.
C3_NonNegative ==
    (impl = "ha" /\ Built) =>
        /\ \A pk \in DOMAIN general_prices : general_prices[pk] >= 0
        /\ \A pk \in DOMAIN feedin_prices : feedin_prices[pk] >= 0

\* The selected bucket of one slot has a negative average in the buy lookup,
\* and the selected bucket of a slot has a negative average in the sell
\* lookup; both slots are priced 0.
C3_Witness ==
    /\ impl = "ha"
    /\ Built
    /\ \E k \in DOMAIN general_lookup :
          /\ k[1] = date_to_use[PeriodKey(k[2], k[3])]
          /\ Sum(general_lookup[k]) < 0
          /\ general_prices[PeriodKey(k[2], k[3])] = 0
    /\ \E k \in DOMAIN feedin_lookup :
          /\ k[1] = date_to_use[PeriodKey(k[2], k[3])]
          /\ Sum(feedin_lookup[k]) < 0
          /\ feedin_prices[PeriodKey(k[2], k[3])] = 0

\* C4: rolling-window date selection (both converters): a slot reads
\* tomorrow's bucket exactly when it is strictly earlier in the day than the
\* current half-hour, and today's bucket otherwise (the current half-hour
\* itself reads today); at 12:00, 00:00..11:30 read tomorrow and
\* 12:00..23:30 read today.
C4_RollingWindow ==
    Built =>
        /\ DOMAIN date_to_use = ExpectedPeriodKeys
        /\ \A pk \in ExpectedPeriodKeys :
              date_to_use[pk] = IF SlotOfDay(pk) < HalfHourOfDay(now)
                                THEN now.day + 1 ELSE now.day
        /\ (now.hour = 12 /\ now.minute = 0) =>
              \A pk \in ExpectedPeriodKeys :
                  /\ SlotOfDay(pk) <= 690 => date_to_use[pk] = now.day + 1
                  /\ SlotOfDay(pk) >= 720 => date_to_use[pk] = now.day

\* The builder ran at 12:00 sharp; 11:30 reads tomorrow and 12:00 today.
C4_Witness ==
    /\ Built
    /\ now.hour = 12
    /\ now.minute = 0
    /\ date_to_use[<<1, 1, 3, 0>>] = now.day + 1
    /\ date_to_use[<<1, 2, 0, 0>>] = now.day

\* Wall-clock minute at which a point's interval starts: its end timestamp
\* minus its own duration.
StartWall(p) == WallMinutes(p.nemTime) - p.duration

\* Wall-clock minute at which the bucket of a lookup key starts.
BucketStart(k) == 1440 * k[1] + 60 * k[2] + k[3]

\* The point's interval start lies in the half-open half hour of the key.
InBucket(p, k) == BucketStart(k) <= StartWall(p) /\ StartWall(p) < BucketStart(k) + 30

\* The ha loop appends a price for the point (it raises nothing and names
\* one of the two channels).
HAAccepted(p, channel) ==
    /\ p.nemTime.ok
    /\ ~SelectPrice(p, forecast_type).raised
    /\ p.channelType = channel

\* The points the loop has gone through so far.
Processed == {j \in 1..Len(forecast_data) : j < idx}

BucketLen(lookup, k) == IF HasKey(lookup, k) THEN Len(lookup[k]) ELSE 0

\* The processed points whose price the loop appends to the channel's lookup.
AcceptedPoints(channel) ==
    {j \in Processed : HAAccepted(forecast_data[j], channel)}

\* Each bucket of the lookup is a half hour of a day and holds one price per
\* accepted point whose interval start lies in it; each accepted point has
\* its bucket.
BucketsByStart(lookup, channel) ==
    /\ \A k \in DOMAIN lookup :
          /\ k[2] \in 0..23
          /\ k[3] \in {0, 30}
          /\ Len(lookup[k]) =
                Cardinality({j \in AcceptedPoints(channel) :
                                InBucket(forecast_data[j], k)})
    /\ \A j \in AcceptedPoints(channel) :
          \E k \in DOMAIN lookup : InBucket(forecast_data[j], k)

IsRoundedMean(r, bucket) ==
    /\ 2 * (r * Len(bucket) - Sum(bucket)) <= Len(bucket)
    /\ 2 * (Sum(bucket) - r * Len(bucket)) <= Len(bucket)

MeanCandidates(bucket) ==
    {Sum(bucket) \div Len(bucket), Sum(bucket) \div Len(bucket) + 1}

\* p is the rounded mean of the bucket, clamped to >= 0.
IsClampedMean(p, bucket) ==
    \E r \in MeanCandidates(bucket) :
        IsRoundedMean(r, bucket) /\ p = IF r < 0 THEN 0 ELSE r

\* p is the rounded mean of the bucket, clamped to >= 0 and then cut down
\* to the slot's buy price.
IsCappedMean(p, bucket, buy) ==
    \E r \in MeanCandidates(bucket) :
        /\ IsRoundedMean(r, bucket)
        /\ p = IF r < 0 THEN 0 ELSE IF r > buy THEN buy ELSE r

\* The bucket a slot's price comes from: the selected date's if it exists,
\* else today's if it exists, else none.
SourceKeys(lookup, pk) ==
    LET h == SlotOfDay(pk) \div 60
        m == SlotOfDay(pk) % 60
        selected == <<date_to_use[pk], h, m>>
        todays == <<now.day, h, m>>
    IN  IF HasKey(lookup, selected) THEN {selected}
        ELSE IF HasKey(lookup, todays) THEN {todays}
        ELSE {}

\* C6: slot fallback of the ha builder, per slot and channel: the price is
\* derived from the selected date's bucket if it is non-empty, else from
\* today's bucket if that is non-empty, else it is 0; a run without any
\* feedIn data yields sell price 0 in every slot and still a tariff.
C6_SlotFallback ==
    (impl = "ha" /\ Built) =>
        /\ \A pk \in ExpectedPeriodKeys :
              /\ \A k \in SourceKeys(general_lookup, pk) :
                    IsClampedMean(general_prices[pk], general_lookup[k])
              /\ SourceKeys(general_lookup, pk) = {} => general_prices[pk] = 0
              /\ \A k \in SourceKeys(feedin_lookup, pk) :
                    IsCappedMean(feedin_prices[pk], feedin_lookup[k],
                                 general_prices[pk])
              /\ SourceKeys(feedin_lookup, pk) = {} => feedin_prices[pk] = 0
        /\ DOMAIN feedin_lookup = {} =>
              \A pk \in ExpectedPeriodKeys : feedin_prices[pk] = 0

\* An elapsed slot whose bucket for tomorrow is missing took its positive
\* buy price from today's bucket, and no feedIn data exists at all.
C6_Witness ==
    /\ impl = "ha"
    /\ result = "tariff"
    /\ DOMAIN feedin_lookup = {}
    /\ \E pk \in ExpectedPeriodKeys :
          /\ date_to_use[pk] = now.day + 1
          /\ ~HasKey(general_lookup, <<now.day + 1, SlotOfDay(pk) \div 60, SlotOfDay(pk) % 60>>)
          /\ HasKey(general_lookup, <<now.day, SlotOfDay(pk) \div 60, SlotOfDay(pk) % 60>>)
          /\ tariff.rates[pk] > 0
          /\ tariff.sell_rates[pk] = 0

\* A ForecastInterval point whose advancedPrice is a variant map without
\* the requested forecast type.
LacksVariant(p) ==
    /\ p.nemTime.ok
    /\ p.type = "ForecastInterval"
    /\ p.advancedPrice.kind = "map"
    /\ p.advancedPrice.keys # {}
    /\ forecast_type \notin p.advancedPrice.keys

\* C7: if a ForecastInterval point of the batch lacks the requested variant,
\* the ha conversion fails: it returns no tariff and does not go on to the
\* remaining points.
C7_MissingVariantFails ==
    (impl = "ha" /\ \E j \in 1..Len(forecast_data) : LacksVariant(forecast_data[j])) =>
        /\ result # "tariff"
        /\ \A j \in Processed \ {1} : ~LacksVariant(forecast_data[j - 1])

\* The try block raises for the point (the point is skipped).
HARejected(p) == ProcessOne(p, forecast_type, EmptyDict, EmptyDict).raised

\* C8: if the batch is non-empty but every point is rejected, the ha
\* conversion fails and returns no tariff.
C8_AllSkippedFails ==
    (/\ impl = "ha"
     /\ Len(forecast_data) > 0
     /\ \A j \in 1..Len(forecast_data) : HARejected(forecast_data[j])) =>
        result # "tariff"

\* C9: an empty forecast list makes both converters return None without
\* building a single slot.
C9_EmptyInput ==
    Len(forecast_data) = 0 =>
        /\ pc \in {"start", "done"}
        /\ pc = "done" => result = "None"
        /\ DOMAIN general_prices = {}
        /\ DOMAIN feedin_prices = {}
        /\ DOMAIN date_to_use = {}
        /\ DOMAIN tariff.rates = {}

\* A run on the empty list has returned None.
C9_Witness ==
    /\ Len(forecast_data) = 0
    /\ pc = "done"
    /\ result = "None"

\* A point whose nemTime parses.
Parseable(p) == p.nemTime.ok

\* The lookups the ha loop builds from a batch, point by point.
RECURSIVE HALookups(_, _)
HALookups(points, ftype) ==
    IF Len(points) = 0 THEN [general |-> EmptyDict, feedin |-> EmptyDict]
    ELSE LET before == HALookups(SubSeq(points, 1, Len(points) - 1), ftype)
             out == ProcessOne(points[Len(points)], ftype,
                               before.general, before.feedin)
         IN  [general |-> out.general, feedin |-> out.feedin]

\* C10: a point with an unparseable timestamp adds nothing to either lookup
\* of the ha converter, and the other points are processed as if it were
\* absent, wherever it stands in the batch: the lookups (and the detected
\* timezone) are those of the batch without its unparseable points.
C10_BadTimestampSkipped ==
    (impl = "ha" /\ pc # "start" /\ result # "None") =>
        LET seen == SubSeq(forecast_data, 1, idx - 1)
            clean == HALookups(SelectSeq(seen, Parseable), forecast_type)
        IN  /\ idx <= Len(forecast_data) + 1
            /\ general_lookup = clean.general
            /\ feedin_lookup = clean.feedin
            /\ (result = "tariff") => idx = Len(forecast_data) + 1
            /\ detected_tz =
                 DetectTz(SelectSeq(forecast_data, Parseable), powerwall_timezone)

\* A batch with a bad timestamp first and a good point after it has been
\* converted: the good point's price is in the lookup and in the tariff.
C10_Witness ==
    /\ impl = "ha"
    /\ result = "tariff"
    /\ Len(forecast_data) = 2
    /\ ~Parseable(forecast_data[1])
    /\ Parseable(forecast_data[2])
    /\ DOMAIN general_lookup # {}
    /\ \E pk \in DOMAIN tariff.rates : tariff.rates[pk] > 0

\* ------------------------------------------------------------------------
\* Normalisation of single points (ha)
\* ------------------------------------------------------------------------
\* Number of prices held by a lookup, over all its buckets.
RECURSIVE CountPrices(_, _)
CountPrices(lookup, keys) ==
    IF keys = {} THEN 0
    ELSE LET k == CHOOSE x \in keys : TRUE
         IN  Len(lookup[k]) + CountPrices(lookup, keys \ {k})

\* The processed points with a usable timestamp, price and channel whose
\* duration is a positive number of minutes.
PositiveDurationPoints(channel) ==
    {j \in AcceptedPoints(channel) : forecast_data[j].duration > 0}

\* C11: a point whose duration is not a positive number of minutes is
\* rejected by the ha loop: it contributes a price to no bucket of either
\* lookup, so each lookup holds one price per accepted point of positive
\* duration and nothing else.
C11_NonPositiveDurationRejected ==
    impl = "ha" =>
        /\ CountPrices(general_lookup, DOMAIN general_lookup) =
              Cardinality(PositiveDurationPoints("general"))
        /\ CountPrices(feedin_lookup, DOMAIN feedin_lookup) =
              Cardinality(PositiveDurationPoints("feedIn"))

\* ------------------------------------------------------------------------
\* Time (ha, under the running clock)
\* ------------------------------------------------------------------------
\* C12: two invocations of the ha converter with identical arguments return
\* identical tariff documents, whatever the wall clock is at the moment of
\* each call.
C12_PureFunction ==
    (impl = "ha" /\ calls = 2 /\ pc = "done") =>
        /\ result = first_return.result
        /\ tariff = first_return.tariff

\* The date each slot decided so far must have, judged from one instant n.
DecidedFrom(n) ==
    \A pk \in DOMAIN date_to_use :
        date_to_use[pk] =
            IF SlotOfDay(pk) < HalfHourOfDay(n) THEN n.day + 1 ELSE n.day

\* C13: within one run of the ha converter the current time is read once;
\* every past/future decision taken for a slot, and the two dates (today,
\* tomorrow) the slots are looked up under, derive from that one instant,
\* also when the clock crosses a half-hour or midnight boundary while the
\* run is in progress.
C13_NowCapturedOnce ==
    (impl = "ha" /\ pc \in {"slots", "structure", "done"} /\ result # "None") =>
        /\ DecidedFrom(now)
        /\ \A pk \in DOMAIN date_to_use : date_to_use[pk] \in {now.day, now.day + 1}
        /\ Cardinality(DOMAIN date_to_use) = slot_i
        /\ \A pk \in DOMAIN general_prices :
              LET s == <<SlotOfDay(pk) \div 60, SlotOfDay(pk) % 60>>
                  chosen == <<date_to_use[pk], s[1], s[2]>>
                  today == <<now.day, s[1], s[2]>>
              IN  /\ (~HasKey(general_lookup, chosen) /\ ~HasKey(general_lookup, today))
                        => general_prices[pk] = 0
                  /\ (HasKey(general_lookup, chosen) /\ Sum(general_lookup[chosen]) > 0)
                        => general_prices[pk] > 0

\* The clock has crossed midnight after the current time was read and
\* while the loop over the slots is under way: slots on both sides of the
\* captured half hour are decided, others are still to come.
C13_Witness ==
    /\ impl = "ha"
    /\ pc = "slots"
    /\ slot_i > 30
    /\ slot_i < 48
    /\ now.hour = 12
    /\ NowIn(clock, now.off).day = now.day + 1
    /\ \E pk \in DOMAIN date_to_use : date_to_use[pk] = now.day
    /\ \E pk \in DOMAIN date_to_use : date_to_use[pk] = now.day + 1
    /\ \E pk \in DOMAIN general_prices : general_prices[pk] > 0

\* ------------------------------------------------------------------------
\* Averaging (ha, on the sample batches)
\* ------------------------------------------------------------------------
\* The processed points of a channel whose interval starts in bucket k.
BucketPoints(channel, k) ==
    {j \in AcceptedPoints(channel) : InBucket(forecast_data[j], k)}

\* The $/kWh sample a point stands for.
SampleValue(p) == CentsToDollars(SignedCents(p.channelType, p.perKwh))

\* Sum of the samples of a set of points of the batch.
RECURSIVE SampleTotal(_)
SampleTotal(js) ==
    IF js = {} THEN 0
    ELSE LET j == CHOOSE x \in js : TRUE
         IN  SampleValue(forecast_data[j]) + SampleTotal(js \ {j})

\* r is total / n rounded to the nearest price step (4 decimal places).
IsNearest(r, total, n) ==
    /\ 2 * (r * n - total) <= n
    /\ 2 * (total - r * n) <= n

\* The values total / n can be rounded to, for the samples of the points js.
RoundedMeans(js) ==
    LET n == Cardinality(js)
        total == SampleTotal(js)
    IN  {r \in {total \div n, total \div n + 1} : IsNearest(r, total, n)}

\* The six samples of the example are those of the points js.
IsSixSampleExample(js) == Cardinality(js) = 6 /\ SampleTotal(js) = 7000

\* C14: when the bucket a slot takes its price from holds n >= 1 samples,
\* the price before clamping is the arithmetic mean of all n samples, each
\* counted once and in whatever order the feed listed them, rounded to 4
\* decimal places; the six samples 0.10, 0.12, 0.11, 0.13, 0.09, 0.15 of
\* one bucket give 0.1167.
C14_Averaging ==
    (impl = "ha" /\ Built) =>
        \A pk \in ExpectedPeriodKeys :
            /\ \A k \in SourceKeys(general_lookup, pk) :
                  LET js == BucketPoints("general", k)
                  IN  /\ js # {}
                      /\ \E r \in RoundedMeans(js) : general_prices[pk] = Max(0, r)
                      /\ IsSixSampleExample(js) => general_prices[pk] = 1167
            /\ \A k \in SourceKeys(feedin_lookup, pk) :
                  LET js == BucketPoints("feedIn", k)
                  IN  /\ js # {}
                      /\ \E r \in RoundedMeans(js) :
                            feedin_prices[pk] = Min(general_prices[pk], Max(0, r))

\* The six samples, listed in another order than above, were converted:
\* the slot 17:30 costs 0.1167.
C14_Witness ==
    /\ impl = "ha"
    /\ result = "tariff"
    /\ Len(forecast_data) >= 6
    /\ forecast_data[1].perKwh = 15000
    /\ BucketLen(general_lookup, <<0, 17, 30>>) = 6
    /\ tariff.rates[<<1, 7, 3, 0>>] = 1167

\* ------------------------------------------------------------------------
\* Sign and selection of the price of a point (ha)
\* ------------------------------------------------------------------------
\* The processed points of a channel whose interval starts in bucket k, in
\* the order of the batch.
PointsInOrder(channel, k) ==
    LET InK(j) == HAAccepted(forecast_data[j], channel) /\ InBucket(forecast_data[j], k)
    IN  SelectSeq([j \in 1..(idx - 1) |-> j], InK)

\* The cents price the loop has chosen for an accepted point.
ChosenCents(p) == SelectPrice(p, forecast_type).value

\* v ($/kWh, 4 decimal places) is cents / 100.
IsCentsOver100(v, cents) ==
    /\ 2 * (10 * v - cents) <= 10
    /\ 2 * (cents - 10 * v) <= 10

\* Bucket by bucket, the lookup lists sign * (chosen cents) / 100 of the
\* channel's accepted points, in the order of the batch.
LookupHoldsSigned(lookup, channel, sign) ==
    \A k \in DOMAIN lookup :
        LET js == PointsInOrder(channel, k)
        IN  /\ Len(lookup[k]) = Len(js)
            /\ \A i \in 1..Len(js) :
                  IsCentsOver100(lookup[k][i], sign * ChosenCents(forecast_data[js[i]]))

\* C15: for every feedIn point the value appended to the sell lookup is the
\* negation of the chosen cents price divided by 100 (raw -8.5 gives
\* +0.085); for every general point it is the chosen cents price divided
\* by 100, sign unchanged; a point of any other channel is appended to
\* neither lookup.
C15_SignConversion ==
    impl = "ha" =>
        /\ LookupHoldsSigned(feedin_lookup, "feedIn", -1)
        /\ LookupHoldsSigned(general_lookup, "general", 1)
        /\ CountPrices(general_lookup, DOMAIN general_lookup) =
              Cardinality(AcceptedPoints("general"))
        /\ CountPrices(feedin_lookup, DOMAIN feedin_lookup) =
              Cardinality(AcceptedPoints("feedIn"))
        /\ \A j \in AcceptedPoints("feedIn") :
              ChosenCents(forecast_data[j]) = -8500 =>
                  \E k \in DOMAIN feedin_lookup :
                      \E i \in 1..Len(feedin_lookup[k]) : feedin_lookup[k][i] = 850

\* A feedIn point of -8.5 c/kWh and a controlled-load point have been
\* processed: the sell lookup holds +0.085 and the buy lookup is empty.
C15_Witness ==
    /\ impl = "ha"
    /\ Len(forecast_data) = 2
    /\ idx = 3
    /\ \E j \in 1..2 : /\ forecast_data[j].channelType = "feedIn"
                        /\ forecast_data[j].perKwh = -8500
                        /\ forecast_data[j].type = "ActualInterval"
    /\ \E j \in 1..2 : forecast_data[j].channelType = "controlledLoad"
    /\ feedin_lookup = (<<0, 23, 30>> :> <<850>>)
    /\ general_lookup = EmptyDict

\* The cents price the point is to contribute: perKwh for an actual or
\* current interval; for a forecast interval the requested variant of a
\* variant map, or the number itself when advancedPrice is one number.
ClaimedCents(p) ==
    IF p.type \in {"ActualInterval", "CurrentInterval"} THEN Value(p.perKwh)
    ELSE IF p.advancedPrice.kind = "map" /\ forecast_type \in p.advancedPrice.keys
    THEN Value(p.advancedPrice.val[forecast_type])
    ELSE IF p.advancedPrice.kind = "num" THEN Value(p.advancedPrice.num)
    ELSE Raised

\* The processed points of a channel that are to contribute a price.
ClaimedPoints(channel) ==
    {j \in Processed :
        /\ forecast_data[j].nemTime.ok
        /\ forecast_data[j].channelType = channel
        /\ ~ClaimedCents(forecast_data[j]).raised}

\* The lookup holds one price per point that is to contribute, and that
\* price is sign * (its claimed cents) / 100, in the bucket of the point.
LookupHoldsClaimed(lookup, channel, sign) ==
    /\ CountPrices(lookup, DOMAIN lookup) = Cardinality(ClaimedPoints(channel))
    /\ \A j \in ClaimedPoints(channel) :
          \E k \in DOMAIN lookup :
              /\ InBucket(forecast_data[j], k)
              /\ \E i \in 1..Len(lookup[k]) :
                    IsCentsOver100(lookup[k][i],
                                   sign * ClaimedCents(forecast_data[j]).value)

\* C16: an ActualInterval or CurrentInterval point contributes its perKwh
\* price; a ForecastInterval point contributes advancedPrice[forecast_type]
\* when advancedPrice is a variant map with that key, or the number itself
\* when advancedPrice is a single number, whatever its value; perKwh is
\* never used for a ForecastInterval point.
C16_PriceSelection ==
    impl = "ha" =>
        /\ LookupHoldsClaimed(general_lookup, "general", 1)
        /\ LookupHoldsClaimed(feedin_lookup, "feedIn", -1)

\* ------------------------------------------------------------------------
\* The tariff document
\* ------------------------------------------------------------------------
\* The value a period definition gives a field: an omitted field is 0.
FieldOf(period_def, name) ==
    IF name \in DOMAIN period_def THEN period_def[name] ELSE 0

\* The definition of period pk starts at the slot's (HH, MM) and ends 30
\* minutes later, on the clock of a day (hour 0..23).
IsHalfHourOf(period_def, pk) ==
    /\ FieldOf(period_def, "fromHour") \in 0..23
    /\ FieldOf(period_def, "toHour") \in 0..23
    /\ FieldOf(period_def, "fromMinute") \in {0, 30}
    /\ FieldOf(period_def, "toMinute") \in {0, 30}
    /\ 60 * FieldOf(period_def, "fromHour") + FieldOf(period_def, "fromMinute") =
          SlotOfDay(pk)
    /\ 60 * FieldOf(period_def, "toHour") + FieldOf(period_def, "toMinute") =
          (SlotOfDay(pk) + 30) % 1440

\* C17: the period definition of each slot denotes start = (HH, MM) of the
\* key and end = start + 30 minutes with the hour wrapped modulo 24, so
\* PERIOD_23_30 ends at hour 0, minute 0; an omitted field denotes 0.
C17_PeriodEndWraps ==
    result = "tariff" =>
        /\ \A pk \in DOMAIN tariff.tou_periods :
              IsHalfHourOf(tariff.tou_periods[pk], pk)
        /\ \A pk \in DOMAIN tariff.sell_tou_periods :
              IsHalfHourOf(tariff.sell_tou_periods[pk], pk)

\* C18: in every returned tariff the buy rates, the sell rates and the TOU
\* period definitions (top level and inside sell_tariff) have the same key
\* set: each rate key has its period definition and each period
\* definition its rates.
C18_SameKeySets ==
    result = "tariff" =>
        /\ DOMAIN tariff.rates = DOMAIN tariff.sell_rates
        /\ DOMAIN tariff.tou_periods = DOMAIN tariff.rates
        /\ DOMAIN tariff.sell_tou_periods = DOMAIN tariff.sell_rates

\* C19: whatever manual_override is, each slot present in both rate maps
\* of the tariff the app converter returns has sell price <= buy price.
C19_OverrideKeepsSellAtMostBuy ==
    (impl = "app" /\ result = "tariff") =>
        \A pk \in DOMAIN tariff.rates \cap DOMAIN tariff.sell_rates :
            tariff.sell_rates[pk] <= tariff.rates[pk]

\* C20: the tariff the app converter returns for a non-empty forecast has
\* all 48 keys PERIOD_HH_MM in its buy-rate map, whatever half hours of
\* today and tomorrow the forecast covers.
C20_AppNoMissingSlot ==
    (impl = "app" /\ result = "tariff" /\ Len(forecast_data) > 0) =>
        DOMAIN tariff.rates = ExpectedPeriodKeys

\* ------------------------------------------------------------------------
\* Spike mode (app/tasks.py)
\* ------------------------------------------------------------------------
\* The price read in the current monitoring cycle is at or above the
\* threshold.
PriceIsSpike == current_price # 0 /\ current_price >= aemo_spike_threshold

\* The price read in the current monitoring cycle is below the threshold.
PriceIsNormal == current_price # 0 /\ current_price < aemo_spike_threshold

\* C21: while the user is in spike mode and the site holds the spike
\* tariff, no step of either periodic job replaces that tariff, except the
\* restore by monitor_aemo_prices that ends spike mode.
C21_SpikeTariffStays ==
    [][(aemo_in_spike_mode /\ site_tariff = SpikeTariff) =>
          \/ site_tariff' = SpikeTariff
          \/ mon_pc = "restore" /\ ~aemo_in_spike_mode']_vars

\* C22: the user becomes in-spike-mode only in a monitoring cycle whose
\* price is at or above the threshold and in which the current tariff was
\* first saved as a backup and the spike tariff was then uploaded
\* successfully.
C22_SpikeEntry ==
    [][(~aemo_in_spike_mode /\ aemo_in_spike_mode') =>
          /\ PriceIsSpike
          /\ mon_pc = "upload"
          /\ current_tariff # NoCurrentTariff
          /\ aemo_saved_tariff_id # 0
          /\ saved_profiles[aemo_saved_tariff_id] = current_tariff
          /\ site_tariff' = SpikeTariff]_vars

\* C23: the user becomes not-in-spike-mode only in a monitoring cycle
\* whose price is below the threshold and in which the saved backup tariff
\* has been uploaded to the site.
C23_SpikeExit ==
    [][(aemo_in_spike_mode /\ ~aemo_in_spike_mode') =>
          /\ PriceIsNormal
          /\ mon_pc = "restore"
          /\ aemo_saved_tariff_id # 0
          /\ site_tariff' = saved_profiles[aemo_saved_tariff_id]]_vars

\* C24: the tariff restored when spike mode is exited is the one the site
\* held immediately before that episode began, never the backup of an
\* earlier episode and never a spike tariff.
C24_RestoresEpisodeBackup ==
    [][(aemo_in_spike_mode /\ ~aemo_in_spike_mode' /\ aemo_saved_tariff_id # 0) =>
          /\ site_tariff' = episode_start_tariff
          /\ site_tariff' # SpikeTariff]_vars

\* C25: every tariff create_spike_tariff returns has, in each of its 48
\* periods, a sell rate that is at least 0 and at most the buy rate, for
\* every price at or above the spike threshold.
C25_SpikeTariffSellAtMostBuy ==
    cst_pc = "done" =>
        /\ DOMAIN spike_sell_rates = PeriodIndexes
        /\ \A i \in PeriodIndexes :
              /\ spike_sell_rates[i] >= 0
              /\ spike_sell_rates[i] <= spike_buy_rates[i]

\* ------------------------------------------------------------------------
\* Timezone of the bucket keys and of the slot lookup (ha)
\* ------------------------------------------------------------------------
\* The bucket key of the interval start of p, read in the timezone of now.
KeyInZoneOfNow(p) ==
    LookupKey(FromWall(StartWall(p) - p.nemTime.off + now.off, now.off))

\* The accepted points of a channel are bucketed under the key the builder
\* looks up for the slot their interval start falls in, in the timezone of
\* now.
FoundForItsSlot(channel) ==
    \A j \in AcceptedPoints(channel) :
        LET k == KeyInZoneOfNow(forecast_data[j])
        IN  k[1] = date_to_use[PeriodKey(k[2], k[3])] =>
                j \in BucketPoints(channel, k)

\* C26: the key under which a point is bucketed and the key the builder
\* looks up for a slot are in the same timezone: a point whose interval
\* start, seen in the timezone used for now, is date D at slot (hour, half)
\* is found for that slot, also when a powerwall_timezone is supplied whose
\* UTC offset differs from the offset of the feed's timestamps.
C26_SameTimezone ==
    (impl = "ha" /\ Built) =>
        /\ FoundForItsSlot("general")
        /\ FoundForItsSlot("feedIn")

\* ------------------------------------------------------------------------
\* The retry protocol of send_tariff_to_tesla
\* ------------------------------------------------------------------------
\* Attempt i received a response with this status line.
Received(i, status) == responses[i].kind = "response" /\ responses[i].status = status

\* Attempt i received a 4xx response or met an unexpected exception.
IsFinalFailure(i) ==
    \/ \E st \in Statuses : st >= 400 /\ st < 500 /\ Received(i, st)
    \/ responses[i].kind = "Exception"

\* Attempt i received a 5xx response, a network error or a timeout.
IsRetryable(i) ==
    \/ \E st \in Statuses : st >= 500 /\ Received(i, st)
    \/ responses[i].kind \in {"ClientError", "TimeoutError"}

\* C27: send_tariff_to_tesla makes at most max_retries POST attempts and
\* terminates; it returns True exactly when an attempt received HTTP 200
\* and makes no attempt after a 200; a 4xx response or an unexpected
\* exception ends the call at once with False; a 5xx response, a network
\* error or a timeout is followed by another attempt while attempts
\* remain, and by False once max_retries attempts have failed.
C27_RetryProtocol ==
    /\ Len(responses) <= max_retries
    /\ send_pc = "loop" => Len(responses) = attempt
    /\ \A i \in 1 .. Len(responses) - 1 :
          ~Received(i, 200) /\ ~IsFinalFailure(i)
    /\ send_pc = "returned" =>
          /\ send_result = "True" <=> \E i \in DOMAIN responses : Received(i, 200)
          /\ \A i \in DOMAIN responses : IsFinalFailure(i) => send_result = "False"
          /\ (responses # <<>> /\ IsRetryable(Len(responses))) =>
                Len(responses) = max_retries /\ send_result = "False"

\* ------------------------------------------------------------------------
\* The custom TOU builder
\* ------------------------------------------------------------------------
\* The starts of the half-hour slots of a day, in minutes since midnight.
HalfHours == {30 * n : n \in 0 .. 47}

FromTime(p) == p.from_hour * 60 + p.from_minute

ToTime(p) == p.to_hour * 60 + p.to_minute

\* t lies in the cyclic range [from, to) of the 24-hour day; a range that
\* ends at or before its start runs across midnight.
InCyclicRange(t, from, to) ==
    IF from < to THEN from <= t /\ t < to ELSE t >= from \/ t < to

SlotStart(slot) == slot.from_hour * 60 + slot.from_minute

SlotEnd(slot) == slot.to_hour * 60 + slot.to_minute

\* ss is exactly the half-hour slots of the period p, each once, in time
\* order from the period's start.
ExactSlotsOf(p, ss) ==
    LET covered == {t \in HalfHours : InCyclicRange(t, FromTime(p), ToTime(p))}
    IN  /\ {SlotStart(ss[i]) : i \in DOMAIN ss} = covered
        /\ Len(ss) = Cardinality(covered)
        /\ FromTime(p) = ToTime(p) => Len(ss) = 48
        /\ \A i \in DOMAIN ss :
              /\ SlotStart(ss[i]) = (FromTime(p) + 30 * (i - 1)) % 1440
              /\ SlotEnd(ss[i]) = (SlotStart(ss[i]) + 30) % 1440
              /\ ss[i].period_key = PeriodKey(ss[i].from_hour, ss[i].from_minute)

\* Some period of the list covers the slot starting at t.
IsCovered(periods, t) ==
    \E j \in DOMAIN periods : InCyclicRange(t, FromTime(periods[j]), ToTime(periods[j]))

\* The period whose rates the slot starting at t ends up with: the last
\* one in display order that covers it.
RulingPeriod(periods, t) ==
    LET js == {j \in DOMAIN periods :
                  InCyclicRange(t, FromTime(periods[j]), ToTime(periods[j]))}
    IN  periods[CHOOSE j \in js : \A other \in js : other <= j]

RatesAllowed(buy, sell) == buy >= 0 /\ sell >= 0 /\ sell <= buy

\* Every slot of the season has rates Tesla accepts.
SeasonAllowed(season) ==
    \A t \in HalfHours :
        IsCovered(season.periods, t) =>
            RatesAllowed(RulingPeriod(season.periods, t).energy_rate,
                         RulingPeriod(season.periods, t).sell_rate)

\* The returned charges of the season are those of its slots.
SeasonAsBuilt(season) ==
    /\ HasKey(energy_charges, season.name)
    /\ HasKey(sell_energy_charges, season.name)
    /\ DOMAIN energy_charges[season.name] =
          {PeriodKey(t \div 60, t % 60) : t \in {u \in HalfHours : IsCovered(season.periods, u)}}
    /\ DOMAIN sell_energy_charges[season.name] = DOMAIN energy_charges[season.name]
    /\ \A t \in HalfHours :
          IsCovered(season.periods, t) =>
              LET k == PeriodKey(t \div 60, t % 60)
              IN  /\ energy_charges[season.name][k] =
                        RulingPeriod(season.periods, t).energy_rate
                  /\ sell_energy_charges[season.name][k] =
                        RulingPeriod(season.periods, t).sell_rate
                  /\ RatesAllowed(energy_charges[season.name][k],
                                  sell_energy_charges[season.name][k])

\* C28: build_tesla_tariff returns a tariff only if, in every season, every
\* generated slot has buy rate >= 0, sell rate >= 0 and sell rate <= buy
\* rate; if a slot of a season violates one of these, ValueError is raised
\* and no tariff is returned.
C28_ReturnsOnlyValidated ==
    /\ cust_pc = "returned" =>
          /\ custom_result = "tariff"
          /\ \A i \in DOMAIN schedule :
                SeasonAllowed(schedule[i]) /\ SeasonAsBuilt(schedule[i])
    /\ cust_pc = "raised" =>
          /\ custom_result = "ValueError"
          /\ ~SeasonAllowed(schedule[season_i])
    /\ \A i \in DOMAIN schedule :
          ~SeasonAllowed(schedule[i]) =>
              /\ cust_pc # "returned"
              /\ custom_result # "tariff"
              /\ season_i <= i

\* The first season was validated and added; a slot of the second sells
\* dearer than it buys and ValueError was raised.
C28_Witness ==
    /\ cust_pc = "raised"
    /\ season_i = 2
    /\ HasKey(energy_charges, "Summer")
    /\ \E k \in DOMAIN energy_rates : sell_rates[k] > energy_rates[k]

\* C29: for a period whose from and to times lie on half-hour boundaries,
\* _generate_time_slots returns exactly the half-hour slots of the cyclic
\* range [from, to) of the day, each once and in time order; a to time at
\* or before the from time runs across midnight, from = to gives all 48
\* slots, and each slot ends 30 minutes after its start, modulo 24 hours.
C29_ExactSlots ==
    (cust_pc = "season" /\ period_i > 1) =>
        ExactSlotsOf(schedule[season_i].periods[period_i - 1], slots)

\* The slots of a period from 22:30 to 22:30 were generated: 48 of them,
\* the last one ending at 22:30.
C29_Witness ==
    /\ cust_pc = "season"
    /\ period_i = 2
    /\ FromTime(schedule[1].periods[1]) = 22 * 60 + 30
    /\ ToTime(schedule[1].periods[1]) = 22 * 60 + 30
    /\ Len(slots) = 48
    /\ slots[3].from_hour = 23 /\ slots[4].from_hour = 0
    /\ SlotEnd(slots[48]) = 22 * 60 + 30

====
